---- MODULE Spec2Model ----
(***************************************************************************)
(* Optimistic-concurrency mutation protocol of cosmonaut: BaseModel's      *)
(* create / update / updateWithOverwrite / save with their lifecycle       *)
(* hooks (src/src/baseModel.ts), Partition.find / maybeFind                *)
(* (src/src/partition.ts) and the atomic createOrUpdate / update retry    *)
(* loop (atomic.ts, src/unnamed/part_007), all acting on one document id   *)
(* of a Cosmos container that hands out a fresh _etag on every committed   *)
(* write. Further specifications add store errors other than conflicts,    *)
(* rejecting lifecycle hooks, props that violate the schema, and delete.   *)
(***************************************************************************)
EXTENDS Integers, Sequences, FiniteSets, TLC

\* ---------------------------------------------------------------- bounds
NumEntities == 2      \* model instances that share the document id
MaxEtag == 3          \* most etags the container issues to direct calls
NumCallers == 3       \* concurrent createOrUpdate callers
MaxRetries == 1       \* largest explicit `retries` option a caller passes

\* ------------------------------------------------------ program constants
DefaultRetries == 3   \* `retries = 3` default of createOrUpdate
Unset == -1           \* an option the caller did not pass

Entities == 1..NumEntities
Callers == 1..NumCallers

VARIABLES
    store,      \* the container's document for the id: [exists, val, etag]
    etagSeq,    \* number of etags the container has issued so far
    props,      \* props[e]: the instance's props, [val, etag]; etag 0 = no _etag
    pc,         \* pc[e]: position of the instance's running create()/update()
    op,         \* op[e]: "create" or "update", the method that is running
    via,        \* via[e]: the public method the caller invoked
    opts,       \* opts[e]: options of the call, [force, accessCondition]
    tokAtCall,  \* tokAtCall[e]: props._etag when the call was made
    calls,      \* calls[e]: lifecycle hooks run by the call, in order
    reqs,       \* reqs[e]: store requests sent by the call, in order
    result,     \* result[e]: "none" while running, "ok" or the error code
    cpc,        \* cpc[c]: position of caller c inside createOrUpdate
    cfg,        \* cfg[c]: [retries, mustFind, fn] the caller passed
    ci,         \* ci[c]: the loop counter i
    cinit,      \* cinit[c]: `initialValue`; has = FALSE when it is undefined
    cmodel,     \* cmodel[c]: `model` / `updated`: [has, val, etag]
    cent,       \* cent[c]: props of the entity handed to atomic.update
    cstat,      \* cstat[c]: [fnCalls, reads, writes, commits, last] of the call
    cres,       \* cres[c]: "none", "ok", "undefined" or the error code raised
    schemas,    \* schemas[i]: the i-th Schema object constructed, [schemaMap, definition]
    lastCall,   \* the last builder call: [method, on, arg]
    params,     \* the values interpolated into a sql`...` template
    query,      \* the SqlQuerySpec the sql tag returned for them
    doc,        \* the stored document of the users container, with its favoriteColors
    inst,       \* a User instance: the props it was constructed with, holds now, last sent
    found,      \* the outcome of the last find, maybeFind or query run
    trip,       \* the last value taken through a Transform and back
    cosmosDb,         \* BaseModel.cosmosDb: 0 = undefined, else the Database
    cosmosContainer,  \* cosmosContainer[k]: the static of model class k, NoHandle while undefined
    opened,           \* opened[k]: calls of Database.container() made for class k
    returned          \* what the last assertContainer returned: [class, code, handle]

modelVars == <<props, pc, op, via, opts, tokAtCall, calls, reqs, result>>
atomicVars == <<cpc, cfg, ci, cinit, cmodel, cent, cstat, cres>>
schemaVars == <<schemas, lastCall>>
queryVars == <<params, query>>
codecVars == <<doc, inst, found, trip>>
connVars == <<cosmosDb, cosmosContainer, opened, returned>>
vars == <<store, etagSeq, props, pc, op, via, opts, tokAtCall, calls, reqs, result,
          cpc, cfg, ci, cinit, cmodel, cent, cstat, cres, schemas, lastCall, params, query,
          doc, inst, found, trip, cosmosDb, cosmosContainer, opened, returned>>

NoDoc == [exists |-> FALSE, val |-> 0, etag |-> 0]
NoModel == [has |-> FALSE, val |-> 0, etag |-> 0]

\* No schema has been built and no sql template evaluated.
NoCall == [method |-> "none", on |-> 0, arg |-> "none"]
NoQuery == [query |-> <<>>, parameters |-> <<>>]

\* A value of the favoriteColors field: a Set, an Array or a plain Object
\* with its items in order; kind "none" where there is no value.
NoValue == [kind |-> "none", items |-> <<>>]
NoProps == [id |-> "none", favoriteColors |-> NoValue]
NoInstance == [original |-> NoProps, props |-> NoProps, sent |-> NoProps, code |-> "none"]
NoOutcome == [by |-> "none", id |-> "none", err |-> "none", code |-> "none", props |-> NoProps]
NoTrip == [from |-> "none", x |-> NoValue, there |-> NoValue, back |-> NoValue]

\* Model classes and the Database objects connectModels may be given.
NumClasses == 3
NumDatabases == 2
Classes == 1..NumClasses
Databases == 1..NumDatabases

\* No connectModels yet, no class has a container, nothing was asked for.
NoHandle == [db |-> 0, n |-> 0]
NoReturn == [class |-> 0, of |-> "none", code |-> "none", handle |-> NoHandle]

NoConnection ==
    /\ cosmosDb = 0
    /\ cosmosContainer = [k \in Classes |-> NoHandle]
    /\ opened = [k \in Classes |-> 0]
    /\ returned = NoReturn

NoCodec ==
    /\ doc = NoProps
    /\ inst = NoInstance
    /\ found = NoOutcome
    /\ trip = NoTrip

NoBuilder ==
    /\ NoConnection
    /\ schemas = <<>>
    /\ lastCall = NoCall
    /\ params = <<>>
    /\ query = NoQuery
    /\ NoCodec

\* ------------------------------------------------------------- the store
\* items.create: insert, 409 when the id is taken; request options other
\* than the access condition have no effect on the outcome.
StoreCreate(s, seq, val) ==
    IF s.exists
    THEN [code |-> "409", store |-> s, seq |-> seq]
    ELSE [code |-> "ok", store |-> [exists |-> TRUE, val |-> val, etag |-> seq + 1],
          seq |-> seq + 1]

\* Variant of StoreUpsert that answers 412 to a request without If-Match.
StoreUpsert_requireToken(s, seq, val, cond) ==
    IF s.exists /\ cond # s.etag
    THEN [code |-> "412", store |-> s, seq |-> seq]
    ELSE [code |-> "ok", store |-> [exists |-> TRUE, val |-> val, etag |-> seq + 1],
          seq |-> seq + 1]

\* items.upsert with accessCondition cond (0 = none, otherwise IfMatch cond):
\* 412 when the stored _etag differs from the condition.
StoreUpsert(s, seq, val, cond) ==
    IF s.exists /\ cond # 0 /\ cond # s.etag
    THEN [code |-> "412", store |-> s, seq |-> seq]
    ELSE [code |-> "ok", store |-> [exists |-> TRUE, val |-> val, etag |-> seq + 1],
          seq |-> seq + 1]

\* item.read + findWithDetails: 404 when response.resource is undefined.
find(s) ==
    IF s.exists
    THEN [code |-> "ok", model |-> [has |-> TRUE, val |-> s.val, etag |-> s.etag]]
    ELSE [code |-> "404", model |-> NoModel]

\* Variant of maybeFind without the catch.
maybeFind_noCatch(s) == find(s)

\* maybeFind: undefined instead of the 404, every other error re-thrown.
maybeFind(s) ==
    IF find(s).code = "404"
    THEN [code |-> "ok", model |-> NoModel]
    ELSE find(s)

Init ==
    /\ store = NoDoc
    /\ etagSeq = 0
    /\ props = [e \in Entities |-> [val |-> e, etag |-> 0]]
    /\ pc = [e \in Entities |-> "idle"]
    /\ op = [e \in Entities |-> "none"]
    /\ via = [e \in Entities |-> "none"]
    /\ opts = [e \in Entities |-> [force |-> FALSE, accessCondition |-> "unset"]]
    /\ tokAtCall = [e \in Entities |-> 0]
    /\ calls = [e \in Entities |-> <<>>]
    /\ reqs = [e \in Entities |-> <<>>]
    /\ result = [e \in Entities |-> "none"]
    /\ cpc = [c \in Callers |-> "idle"]
    /\ cfg = [c \in Callers |-> [retries |-> Unset, mustFind |-> FALSE, fn |-> "inc"]]
    /\ ci = [c \in Callers |-> 0]
    /\ cinit = [c \in Callers |-> NoModel]
    /\ cmodel = [c \in Callers |-> NoModel]
    /\ cent = [c \in Callers |-> NoModel]
    /\ cstat = [c \in Callers |->
                  [fnCalls |-> 0, reads |-> 0, writes |-> 0, commits |-> 0, last |-> "none"]]
    /\ cres = [c \in Callers |-> "none"]
    /\ NoBuilder

\* ------------------------------------------------- BaseModel, direct calls
Options == [force : BOOLEAN, accessCondition : {"unset"}]

InFlight == Cardinality({e \in Entities : pc[e] \notin {"idle", "done"}})

\* Variant of beforeOpHook with create() awaiting update's hook.
beforeOpHook_swapped(m) == IF m = "create" THEN "beforeUpdate" ELSE "beforeUpdate"

\* The hook each method awaits at each position.
beforeOpHook(m) == IF m = "create" THEN "beforeCreate" ELSE "beforeUpdate"

\* Both create() and update() end with `await this.afterCreate()`.
afterOpHook(m) == IF m = "create" THEN "afterCreate" ELSE "afterCreate"

\* A call of method m runs up to its first await: `await this.before<Op>()`.
\* It starts only if the calls in flight cannot take the etags past MaxEtag.
Begin(e, entry, m, o) ==
    /\ pc[e] = "idle"
    /\ etagSeq + InFlight < MaxEtag
    /\ pc' = [pc EXCEPT ![e] = "beforePersist"]
    /\ op' = [op EXCEPT ![e] = m]
    /\ via' = [via EXCEPT ![e] = entry]
    /\ opts' = [opts EXCEPT ![e] = o]
    /\ tokAtCall' = [tokAtCall EXCEPT ![e] = props[e].etag]
    /\ calls' = [calls EXCEPT ![e] = <<beforeOpHook(m)>>]
    /\ reqs' = [reqs EXCEPT ![e] = <<>>]
    /\ result' = [result EXCEPT ![e] = "none"]
    /\ UNCHANGED <<store, etagSeq, props>>
    /\ UNCHANGED <<atomicVars, schemaVars, queryVars, codecVars, connVars>>

create(e) == \E o \in Options : Begin(e, "create", "create", o)

update(e) == \E o \in Options : Begin(e, "update", "update", o)

\* update({ ...options, accessCondition: undefined })
updateWithOverwrite(e) ==
    \E o \in Options :
        Begin(e, "updateWithOverwrite", "update", [o EXCEPT !.accessCondition = "undefined"])

\* Variant of saveTarget that always updates.
saveTarget_alwaysUpdate(p) == "update"

\* this.props._etag ? this.update(...) : this.create(...)
saveTarget(p) == IF p.etag # 0 THEN "update" ELSE "create"

save(e) == \E o \in Options : Begin(e, "save", saveTarget(props[e]), o)

\* `await this.beforePersist()`
BeforePersist(e) ==
    /\ pc[e] = "beforePersist"
    /\ calls' = [calls EXCEPT ![e] = Append(@, "beforePersist")]
    /\ pc' = [pc EXCEPT ![e] = "request"]
    /\ UNCHANGED <<store, etagSeq, props, op, via, opts, tokAtCall, reqs, result>>
    /\ UNCHANGED <<atomicVars, schemaVars, queryVars, codecVars, connVars>>

\* Variant of updateCondition that never sends If-Match.
updateCondition_noIfMatch(p, o) == 0

\* accessCondition of update's upsert: IfMatch on props._etag when it is
\* defined, replaced by whatever `accessCondition` key the options carry.
updateCondition(p, o) ==
    IF o.accessCondition = "undefined" THEN 0 ELSE p.etag

requestKind(m, cond) ==
    IF m = "create" THEN "insert"
    ELSE IF cond # 0 THEN "upsertIfMatch" ELSE "upsert"

\* Variant of Request that sends the request once more after a first failure.
Request_retry(e) ==
    /\ pc[e] = "request"
    /\ LET cond == updateCondition(props[e], opts[e])
           r == IF op[e] = "create"
                THEN StoreCreate(store, etagSeq, props[e].val)
                ELSE StoreUpsert(store, etagSeq, props[e].val, cond)
       IN /\ reqs' = [reqs EXCEPT ![e] = Append(@, requestKind(op[e], cond))]
          /\ store' = r.store
          /\ etagSeq' = r.seq
          /\ IF r.code = "ok"
             THEN /\ props' = [props EXCEPT ![e] = [val |-> r.store.val, etag |-> r.store.etag]]
                  /\ calls' = [calls EXCEPT ![e] = Append(@, "afterPersist")]
                  /\ pc' = [pc EXCEPT ![e] = "afterOp"]
                  /\ UNCHANGED result
             ELSE IF reqs[e] = <<>>
             THEN UNCHANGED <<pc, result, props, calls>>
             ELSE /\ pc' = [pc EXCEPT ![e] = "done"]
                  /\ result' = [result EXCEPT ![e] = r.code]
                  /\ UNCHANGED <<props, calls>>
    /\ UNCHANGED <<op, via, opts, tokAtCall>>
    /\ UNCHANGED <<atomicVars, schemaVars, queryVars, codecVars, connVars>>

\* Variant of Request that drops the _etag of the response.
Request_keepToken(e) ==
    /\ pc[e] = "request"
    /\ LET cond == updateCondition(props[e], opts[e])
           r == IF op[e] = "create"
                THEN StoreCreate(store, etagSeq, props[e].val)
                ELSE StoreUpsert(store, etagSeq, props[e].val, cond)
       IN /\ reqs' = [reqs EXCEPT ![e] = Append(@, requestKind(op[e], cond))]
          /\ store' = r.store
          /\ etagSeq' = r.seq
          /\ IF r.code = "ok"
             THEN /\ props' = [props EXCEPT ![e] = [val |-> r.store.val, etag |-> props[e].etag]]
                  /\ calls' = [calls EXCEPT ![e] = Append(@, "afterPersist")]
                  /\ pc' = [pc EXCEPT ![e] = "afterOp"]
                  /\ UNCHANGED result
             ELSE /\ pc' = [pc EXCEPT ![e] = "done"]
                  /\ result' = [result EXCEPT ![e] = r.code]
                  /\ UNCHANGED <<props, calls>>
    /\ UNCHANGED <<op, via, opts, tokAtCall>>
    /\ UNCHANGED <<atomicVars, schemaVars, queryVars, codecVars, connVars>>

\* Variant of Request that takes the stored _etag from a rejection.
Request_tokenOnConflict(e) ==
    /\ pc[e] = "request"
    /\ LET cond == updateCondition(props[e], opts[e])
           r == IF op[e] = "create"
                THEN StoreCreate(store, etagSeq, props[e].val)
                ELSE StoreUpsert(store, etagSeq, props[e].val, cond)
       IN /\ reqs' = [reqs EXCEPT ![e] = Append(@, requestKind(op[e], cond))]
          /\ store' = r.store
          /\ etagSeq' = r.seq
          /\ IF r.code = "ok"
             THEN /\ props' = [props EXCEPT ![e] = [val |-> r.store.val, etag |-> r.store.etag]]
                  /\ calls' = [calls EXCEPT ![e] = Append(@, "afterPersist")]
                  /\ pc' = [pc EXCEPT ![e] = "afterOp"]
                  /\ UNCHANGED result
             ELSE /\ pc' = [pc EXCEPT ![e] = "done"]
                  /\ result' = [result EXCEPT ![e] = r.code]
                  /\ props' = [props EXCEPT ![e].etag = store.etag]
                  /\ UNCHANGED calls
    /\ UNCHANGED <<op, via, opts, tokAtCall>>
    /\ UNCHANGED <<atomicVars, schemaVars, queryVars, codecVars, connVars>>

\* The store request of create() / update(); on success
\* `this.props = response.resource` and `await this.afterPersist()`, on
\* failure the store's error rejects the call.
Request(e) ==
    /\ pc[e] = "request"
    /\ LET cond == updateCondition(props[e], opts[e])
           r == IF op[e] = "create"
                THEN StoreCreate(store, etagSeq, props[e].val)
                ELSE StoreUpsert(store, etagSeq, props[e].val, cond)
       IN /\ reqs' = [reqs EXCEPT ![e] = Append(@, requestKind(op[e], cond))]
          /\ store' = r.store
          /\ etagSeq' = r.seq
          /\ IF r.code = "ok"
             THEN /\ props' = [props EXCEPT ![e] = [val |-> r.store.val, etag |-> r.store.etag]]
                  /\ calls' = [calls EXCEPT ![e] = Append(@, "afterPersist")]
                  /\ pc' = [pc EXCEPT ![e] = "afterOp"]
                  /\ UNCHANGED result
             ELSE /\ pc' = [pc EXCEPT ![e] = "done"]
                  /\ result' = [result EXCEPT ![e] = r.code]
                  /\ UNCHANGED <<props, calls>>
    /\ UNCHANGED <<op, via, opts, tokAtCall>>
    /\ UNCHANGED <<atomicVars, schemaVars, queryVars, codecVars, connVars>>

\* `await this.after<Op>()`, then the call resolves.
AfterOp(e) ==
    /\ pc[e] = "afterOp"
    /\ calls' = [calls EXCEPT ![e] = Append(@, afterOpHook(op[e]))]
    /\ pc' = [pc EXCEPT ![e] = "done"]
    /\ result' = [result EXCEPT ![e] = "ok"]
    /\ UNCHANGED <<store, etagSeq, props, op, via, opts, tokAtCall, reqs>>
    /\ UNCHANGED <<atomicVars, schemaVars, queryVars, codecVars, connVars>>

\* The caller has seen the outcome; the instance is free for the next call.
Return(e) ==
    /\ pc[e] = "done"
    /\ pc' = [pc EXCEPT ![e] = "idle"]
    /\ op' = [op EXCEPT ![e] = "none"]
    /\ via' = [via EXCEPT ![e] = "none"]
    /\ opts' = [opts EXCEPT ![e] = [force |-> FALSE, accessCondition |-> "unset"]]
    /\ tokAtCall' = [tokAtCall EXCEPT ![e] = 0]
    /\ calls' = [calls EXCEPT ![e] = <<>>]
    /\ reqs' = [reqs EXCEPT ![e] = <<>>]
    /\ result' = [result EXCEPT ![e] = "none"]
    /\ UNCHANGED <<store, etagSeq, props>>
    /\ UNCHANGED <<atomicVars, schemaVars, queryVars, codecVars, connVars>>

\* Partition.find(id), after which the application assigns its own
\* properties to the instance it found: the instance holds the stored _etag.
Find(e) ==
    /\ pc[e] = "idle"
    /\ find(store).code = "ok"
    /\ props[e].etag # find(store).model.etag
    /\ props' = [props EXCEPT ![e] = [val |-> e, etag |-> find(store).model.etag]]
    /\ UNCHANGED <<store, etagSeq, pc, op, via, opts, tokAtCall, calls, reqs, result>>
    /\ UNCHANGED <<atomicVars, schemaVars, queryVars, codecVars, connVars>>

Next ==
    \E e \in Entities :
        \/ create(e)
        \/ update(e)
        \/ updateWithOverwrite(e)
        \/ save(e)
        \/ BeforePersist(e)
        \/ Request(e)
        \/ AfterOp(e)
        \/ Return(e)
        \/ Find(e)

Spec == Init /\ [][Next]_vars

\* ------------------------------------------------- atomic.createOrUpdate
RetryOpts == (0..MaxRetries) \cup {Unset}

\* `retries = 3` when the option is not passed.
retries(c) == IF cfg[c].retries = Unset THEN DefaultRetries ELSE cfg[c].retries

\* The two transition functions callers pass: one increments the counter
\* (creating the document with counter 1), one returns the abort value.
updateFn(k, m) ==
    IF k = "abort" THEN [abort |-> TRUE, model |-> m]
    ELSE IF m.has THEN [abort |-> FALSE, model |-> [m EXCEPT !.val = @ + 1]]
    ELSE [abort |-> FALSE, model |-> [has |-> TRUE, val |-> 1, etag |-> 0]]

\* Variants of the retry test: one that misses the insert conflict, one that
\* allows one attempt too many.
shouldRetry_only412(code, i, r) == code = "412" /\ i < r

shouldRetry_offByOne(code, i, r) == code \in {"412", "409"} /\ i <= r

\* Variant that retries whatever the error is.
shouldRetry_anyError(code, i, r) == i < r

\* (e.code === 412 || e.code === 409) && i < retries
shouldRetry(code, i, r) == code \in {"412", "409"} /\ i < r

\* The options and transition function a caller passes. `retries` is read
\* only in the catch around save(), which a call whose function aborts never
\* reaches, so such a call is listed with the option left out.
Configs ==
    {g \in [retries : RetryOpts, mustFind : BOOLEAN, fn : {"inc", "abort"}] :
        g.fn = "abort" => g.retries = Unset}

configKey(g) ==
    4 * (g.retries + 1) + (IF g.mustFind THEN 2 ELSE 0) + (IF g.fn = "abort" THEN 1 ELSE 0)

\* Every caller has invoked createOrUpdate(partition, id, updateFn, options)
\* and stands before its first read. Callers are interchangeable, so their
\* configurations are listed in non-decreasing order.
InitAtomic ==
    /\ store = NoDoc
    /\ etagSeq = 0
    /\ props = [e \in Entities |-> [val |-> e, etag |-> 0]]
    /\ pc = [e \in Entities |-> "idle"]
    /\ op = [e \in Entities |-> "none"]
    /\ via = [e \in Entities |-> "none"]
    /\ opts = [e \in Entities |-> [force |-> FALSE, accessCondition |-> "unset"]]
    /\ tokAtCall = [e \in Entities |-> 0]
    /\ calls = [e \in Entities |-> <<>>]
    /\ reqs = [e \in Entities |-> <<>>]
    /\ result = [e \in Entities |-> "none"]
    /\ cfg \in [Callers -> Configs]
    /\ \A c \in Callers : c + 1 \in Callers => configKey(cfg[c]) <= configKey(cfg[c + 1])
    /\ cpc = [c \in Callers |-> "read"]
    /\ ci = [c \in Callers |-> 0]
    /\ cinit = [c \in Callers |-> NoModel]
    /\ cmodel = [c \in Callers |-> NoModel]
    /\ cent = [c \in Callers |-> NoModel]
    /\ cstat = [c \in Callers |->
                  [fnCalls |-> 0, reads |-> 0, writes |-> 0, commits |-> 0, last |-> "none"]]
    /\ cres = [c \in Callers |-> "none"]
    /\ NoBuilder

\* Variant of Read that, under mustFind, reads again until the document
\* exists instead of raising the 404.
Read_untilFound(c) ==
    /\ cpc[c] = "read"
    /\ IF cinit[c].has
       THEN /\ cmodel' = [cmodel EXCEPT ![c] = cinit[c]]
            /\ cpc' = [cpc EXCEPT ![c] = "fn"]
            /\ UNCHANGED <<cstat, cres>>
       ELSE LET r == IF cfg[c].mustFind THEN find(store) ELSE maybeFind(store)
            IN IF r.code = "ok"
               THEN /\ cstat' = [cstat EXCEPT ![c].reads = @ + 1]
                    /\ cmodel' = [cmodel EXCEPT ![c] = r.model]
                    /\ cpc' = [cpc EXCEPT ![c] = "fn"]
                    /\ UNCHANGED cres
               ELSE UNCHANGED <<cpc, cres, cmodel, cstat>>
    /\ UNCHANGED <<store, etagSeq, cfg, ci, cinit, cent>>
    /\ UNCHANGED <<modelVars, schemaVars, queryVars, codecVars, connVars>>

\* let model = initialValue;
\* if (!model) model = await (mustFind ? partition.find(id) : partition.maybeFind(id))
Read(c) ==
    /\ cpc[c] = "read"
    /\ IF cinit[c].has
       THEN /\ cmodel' = [cmodel EXCEPT ![c] = cinit[c]]
            /\ cpc' = [cpc EXCEPT ![c] = "fn"]
            /\ UNCHANGED <<cstat, cres>>
       ELSE LET r == IF cfg[c].mustFind THEN find(store) ELSE maybeFind(store)
            IN /\ cstat' = [cstat EXCEPT ![c].reads = @ + 1]
               /\ IF r.code = "ok"
                  THEN /\ cmodel' = [cmodel EXCEPT ![c] = r.model]
                       /\ cpc' = [cpc EXCEPT ![c] = "fn"]
                       /\ UNCHANGED cres
                  ELSE /\ cpc' = [cpc EXCEPT ![c] = "done"]
                       /\ cres' = [cres EXCEPT ![c] = r.code]
                       /\ UNCHANGED cmodel
    /\ UNCHANGED <<store, etagSeq, cfg, ci, cinit, cent>>
    /\ UNCHANGED <<modelVars, schemaVars, queryVars, codecVars, connVars>>

\* Variant of Fn that saves whatever the transition function returned.
Fn_noAbortCheck(c) ==
    /\ cpc[c] = "fn"
    /\ cstat' = [cstat EXCEPT ![c].fnCalls = @ + 1]
    /\ cpc' = [cpc EXCEPT ![c] = "save"]
    /\ cmodel' = [cmodel EXCEPT ![c] = updateFn(cfg[c].fn, cmodel[c]).model]
    /\ UNCHANGED <<store, etagSeq, cfg, ci, cinit, cent, cres>>
    /\ UNCHANGED <<modelVars, schemaVars, queryVars, codecVars, connVars>>

\* updated = await updateFn(model); if (!updated) return undefined
Fn(c) ==
    /\ cpc[c] = "fn"
    /\ LET u == updateFn(cfg[c].fn, cmodel[c])
       IN /\ cstat' = [cstat EXCEPT ![c].fnCalls = @ + 1]
          /\ IF u.abort
             THEN /\ cpc' = [cpc EXCEPT ![c] = "done"]
                  /\ cres' = [cres EXCEPT ![c] = "undefined"]
                  /\ UNCHANGED cmodel
             ELSE /\ cpc' = [cpc EXCEPT ![c] = "save"]
                  /\ cmodel' = [cmodel EXCEPT ![c] = u.model]
                  /\ UNCHANGED cres
    /\ UNCHANGED <<store, etagSeq, cfg, ci, cinit, cent>>
    /\ UNCHANGED <<modelVars, schemaVars, queryVars, codecVars, connVars>>

\* Variant of Save that hands the rejected model back to the function
\* without reading again.
Save_skipRead(c) ==
    /\ cpc[c] = "save"
    /\ LET m == cmodel[c]
           r == IF saveTarget(m) = "create"
                THEN StoreCreate(store, etagSeq, m.val)
                ELSE StoreUpsert(store, etagSeq, m.val,
                                 updateCondition(m, [force |-> FALSE, accessCondition |-> "unset"]))
       IN /\ store' = r.store
          /\ etagSeq' = r.seq
          /\ cstat' = [cstat EXCEPT ![c].writes = @ + 1,
                                    ![c].commits = IF r.code = "ok" THEN @ + 1 ELSE @,
                                    ![c].last = r.code]
          /\ IF r.code = "ok"
             THEN /\ cmodel' = [cmodel EXCEPT ![c] = [has |-> TRUE, val |-> r.store.val,
                                                     etag |-> r.store.etag]]
                  /\ cpc' = [cpc EXCEPT ![c] = "done"]
                  /\ cres' = [cres EXCEPT ![c] = "ok"]
                  /\ UNCHANGED <<ci, cinit>>
             ELSE IF shouldRetry(r.code, ci[c], retries(c))
             THEN /\ ci' = [ci EXCEPT ![c] = @ + 1]
                  /\ cinit' = [cinit EXCEPT ![c] = NoModel]
                  /\ cpc' = [cpc EXCEPT ![c] = "fn"]
                  /\ UNCHANGED <<cmodel, cres>>
             ELSE /\ cpc' = [cpc EXCEPT ![c] = "done"]
                  /\ cres' = [cres EXCEPT ![c] = r.code]
                  /\ UNCHANGED <<cmodel, ci, cinit>>
    /\ UNCHANGED <<cfg, cent>>
    /\ UNCHANGED <<modelVars, schemaVars, queryVars, codecVars, connVars>>

\* await updated.save(reqOps, partition.container) and the catch around it.
Save(c) ==
    /\ cpc[c] = "save"
    /\ LET m == cmodel[c]
           r == IF saveTarget(m) = "create"
                THEN StoreCreate(store, etagSeq, m.val)
                ELSE StoreUpsert(store, etagSeq, m.val,
                                 updateCondition(m, [force |-> FALSE, accessCondition |-> "unset"]))
       IN /\ store' = r.store
          /\ etagSeq' = r.seq
          /\ cstat' = [cstat EXCEPT ![c].writes = @ + 1,
                                    ![c].commits = IF r.code = "ok" THEN @ + 1 ELSE @,
                                    ![c].last = r.code]
          /\ IF r.code = "ok"
             THEN /\ cmodel' = [cmodel EXCEPT ![c] = [has |-> TRUE, val |-> r.store.val,
                                                     etag |-> r.store.etag]]
                  /\ cpc' = [cpc EXCEPT ![c] = "done"]
                  /\ cres' = [cres EXCEPT ![c] = "ok"]
                  /\ UNCHANGED <<ci, cinit>>
             ELSE IF shouldRetry(r.code, ci[c], retries(c))
             THEN /\ ci' = [ci EXCEPT ![c] = @ + 1]
                  /\ cinit' = [cinit EXCEPT ![c] = NoModel]
                  /\ cpc' = [cpc EXCEPT ![c] = "read"]
                  /\ UNCHANGED <<cmodel, cres>>
             ELSE /\ cpc' = [cpc EXCEPT ![c] = "done"]
                  /\ cres' = [cres EXCEPT ![c] = r.code]
                  /\ UNCHANGED <<cmodel, ci, cinit>>
    /\ UNCHANGED <<cfg, cent>>
    /\ UNCHANGED <<modelVars, schemaVars, queryVars, codecVars, connVars>>

NextAtomic ==
    \E c \in Callers :
        \/ Read(c)
        \/ Fn(c)
        \/ Save(c)

SpecAtomic == InitAtomic /\ [][NextAtomic]_vars

\* ------------------------------------------------------------ properties
Conflict == {"409", "412"}

AllDone == \A c \in Callers : cpc[c] = "done"

\* C1: when every caller runs createOrUpdate with the incrementing function
\* and retries >= N-1, then once all N calls have ended all of them have
\* succeeded and the stored counter equals N: no increment is lost.
C1_NoLostUpdate ==
    (AllDone /\ \A c \in Callers :
                    cfg[c].fn = "inc" /\ ~cfg[c].mustFind /\ retries(c) >= NumCallers - 1)
        => /\ \A c \in Callers : cres[c] = "ok"
           /\ store.exists
           /\ store.val = NumCallers

\* All callers incremented with retries >= N-1, at least one of them had to
\* run its function again after a conflict, and the counter is N.
C1_Witness ==
    /\ AllDone
    /\ \A c \in Callers :
          cfg[c].fn = "inc" /\ ~cfg[c].mustFind /\ retries(c) >= NumCallers - 1
    /\ \E c \in Callers : cstat[c].fnCalls = NumCallers
    /\ store.val = NumCallers

\* C2: one createOrUpdate call invokes the transition function at most
\* retries+1 times and attempts at most retries+1 writes; when the write of
\* the last allowed attempt fails with a conflict too, the call has ended
\* raising that conflict, and with retries = 0 the first conflict is raised.
C2_BoundedAttempts ==
    \A c \in Callers :
        /\ cstat[c].fnCalls <= retries(c) + 1
        /\ cstat[c].writes <= retries(c) + 1
        /\ (cstat[c].writes = retries(c) + 1 /\ cstat[c].last \in Conflict)
              => (cpc[c] = "done" /\ cres[c] = cstat[c].last)
        /\ (cres[c] \in Conflict) => cstat[c].writes = retries(c) + 1
        /\ (retries(c) = 0 /\ cstat[c].last \in Conflict)
              => (cpc[c] = "done" /\ cres[c] = cstat[c].last
                  /\ cstat[c].writes = 1 /\ cstat[c].fnCalls = 1)

\* A call with retries = 1 has retried once and raised the second conflict.
C2_Witness ==
    \E c \in Callers :
        /\ cpc[c] = "done"
        /\ cfg[c].retries = 1
        /\ cres[c] \in Conflict
        /\ cstat[c].writes = 2
        /\ cstat[c].fnCalls = 2

Answered(e) == pc[e] = "request" /\ pc'[e] # "request"

Mine(e, s) == s.exists /\ s.val = e /\ s.etag = etagSeq' /\ etagSeq' = etagSeq + 1

C5_CreateConflictAndForce ==
    [][\A e \in Entities :
          (Answered(e) /\ via[e] = "create")
          => IF ~store.exists \/ opts[e].force
             THEN /\ pc'[e] = "afterOp"
                  /\ Mine(e, store')
             ELSE /\ store' = store
                  /\ pc'[e] = "done"
                  /\ result'[e] = "409"]_vars

\* C6: a forced update (update with force, or updateWithOverwrite) by an
\* instance whose _etag is stale is sent without If-Match, succeeds, and
\* leaves the instance's document in the store.
C6_ForcedUpdateSucceeds ==
    [][\A e \in Entities :
          (/\ Answered(e)
           /\ op[e] = "update"
           /\ (opts[e].force \/ via[e] = "updateWithOverwrite")
           /\ props[e].etag # 0
           /\ props[e].etag # store.etag)
          => /\ reqs'[e] = <<"upsert">>
             /\ pc'[e] = "afterOp"
             /\ Mine(e, store')]_vars

\* C7: save() runs create() exactly when the instance has no _etag and
\* update() exactly when it has one; it sends no insert for an instance with
\* an _etag and no If-Match upsert for an instance without.
C7_SaveDispatch ==
    \A e \in Entities :
        via[e] = "save"
        => /\ (tokAtCall[e] = 0) <=> (op[e] = "create")
           /\ (tokAtCall[e] # 0) <=> (op[e] = "update")
           /\ calls[e][1] = (IF tokAtCall[e] = 0 THEN "beforeCreate" ELSE "beforeUpdate")
           /\ \A i \in DOMAIN reqs[e] :
                 reqs[e][i] = (IF tokAtCall[e] = 0 THEN "insert" ELSE "upsertIfMatch")

\* Two save() calls have sent their requests: one by a new instance (an
\* insert), one by an instance that held an _etag (an If-Match upsert).
C7_Witness ==
    \E a, b \in Entities :
        /\ via[a] = "save" /\ tokAtCall[a] = 0 /\ reqs[a] = <<"insert">>
        /\ via[b] = "save" /\ tokAtCall[b] # 0 /\ reqs[b] = <<"upsertIfMatch">>

IsPrefix(s, t) == Len(s) <= Len(t) /\ \A i \in 1..Len(s) : s[i] = t[i]

CreateHooks == <<"beforeCreate", "beforePersist", "afterPersist", "afterCreate">>
UpdateHooks == <<"beforeUpdate", "beforePersist", "afterPersist", "afterUpdate">>

\* C8: create(), also when save() runs it, calls beforeCreate, beforePersist,
\* afterPersist, afterCreate in this order, each once, and sends its insert
\* after beforePersist and before afterPersist.
C8_CreateHookOrder ==
    \A e \in Entities :
        op[e] = "create"
        => /\ IsPrefix(calls[e], CreateHooks)
           /\ (result[e] = "ok") => (calls[e] = CreateHooks)
           /\ (reqs[e] # <<>>) => (reqs[e] = <<"insert">> /\ Len(calls[e]) >= 2)
           /\ (Len(calls[e]) >= 3) => (reqs[e] = <<"insert">>)

\* A create() reached through save() has returned after all four hooks.
C8_Witness ==
    \E e \in Entities :
        /\ via[e] = "save"
        /\ op[e] = "create"
        /\ pc[e] = "done"
        /\ result[e] = "ok"
        /\ Len(calls[e]) = 4

\* C9: update(), also when save() runs it, calls beforeUpdate, beforePersist,
\* afterPersist, afterUpdate in this order and sends its upsert after
\* beforePersist and before afterPersist.
C9_UpdateHookOrder ==
    \A e \in Entities :
        op[e] = "update"
        => /\ IsPrefix(calls[e], UpdateHooks)
           /\ (result[e] = "ok") => (calls[e] = UpdateHooks)
           /\ (reqs[e] # <<>>) => Len(calls[e]) >= 2
           /\ (Len(calls[e]) >= 3) => (Len(reqs[e]) = 1)

\* C10: a direct create() or update() sends exactly one store request; a
\* conflict answer ends the call at once with that error, with no further
\* request and no after-hook.
C10_SingleRequest ==
    \A e \in Entities :
        /\ Len(reqs[e]) <= 1
        /\ (pc[e] \in {"afterOp", "done"}) => (Len(reqs[e]) = 1)
        /\ (pc[e] \in {"beforePersist", "request"}) => (reqs[e] = <<>> /\ result[e] = "none")
        /\ (result[e] \in Conflict) => (pc[e] = "done" /\ Len(reqs[e]) = 1 /\ Len(calls[e]) = 2)

\* Both kinds of conflict have been raised to direct callers after one request.
C10_Witness ==
    \E a, b \in Entities :
        /\ pc[a] = "done" /\ result[a] = "409" /\ reqs[a] = <<"insert">>
        /\ pc[b] = "done" /\ result[b] = "412" /\ reqs[b] = <<"upsertIfMatch">>

\* ------------------------------------- store errors other than conflicts
\* Errors of the container that are neither 404, 409 nor 412 (throttling,
\* outage). Partition.maybeFind rethrows them (`throw e`), find has no catch.
StoreErrors == {"429", "503"}

\* As InitAtomic, every caller passing the incrementing function and no
\* mustFind.
InitAtomicErr ==
    /\ InitAtomic
    /\ \A c \in Callers : cfg[c].fn = "inc" /\ ~cfg[c].mustFind

\* The read of this attempt is rejected with a store error, which leaves
\* createOrUpdate through the un-caught `await partition.find/maybeFind`.
ReadFails(c) ==
    /\ cpc[c] = "read"
    /\ ~cinit[c].has
    /\ \E code \in StoreErrors :
          /\ cstat' = [cstat EXCEPT ![c].reads = @ + 1]
          /\ cpc' = [cpc EXCEPT ![c] = "done"]
          /\ cres' = [cres EXCEPT ![c] = code]
    /\ UNCHANGED <<store, etagSeq, cfg, ci, cinit, cmodel, cent>>
    /\ UNCHANGED <<modelVars, schemaVars, queryVars, codecVars, connVars>>

\* The write of this attempt is rejected with a store error and nothing is
\* committed; the catch around save() decides as for any other error.
SaveFails(c) ==
    /\ cpc[c] = "save"
    /\ \E code \in StoreErrors :
          /\ cstat' = [cstat EXCEPT ![c].writes = @ + 1, ![c].last = code]
          /\ IF shouldRetry(code, ci[c], retries(c))
             THEN /\ ci' = [ci EXCEPT ![c] = @ + 1]
                  /\ cinit' = [cinit EXCEPT ![c] = NoModel]
                  /\ cpc' = [cpc EXCEPT ![c] = "read"]
                  /\ UNCHANGED cres
             ELSE /\ cpc' = [cpc EXCEPT ![c] = "done"]
                  /\ cres' = [cres EXCEPT ![c] = code]
                  /\ UNCHANGED <<ci, cinit>>
    /\ UNCHANGED <<store, etagSeq, cfg, cmodel, cent>>
    /\ UNCHANGED <<modelVars, schemaVars, queryVars, codecVars, connVars>>

NextAtomicErr ==
    \E c \in Callers :
        \/ Read(c)
        \/ Fn(c)
        \/ Save(c)
        \/ ReadFails(c)
        \/ SaveFails(c)

SpecAtomicErr == InitAtomicErr /\ [][NextAtomicErr]_vars

\* C11: inside createOrUpdate a store error other than 409/412, raised by
\* the read or by the write, ends the call on the attempt where it occurs
\* with that very error, whatever retry budget remains: no read, transition
\* or write follows it.
C11_StoreErrorPropagates ==
    \A c \in Callers :
        /\ (cstat[c].last \in StoreErrors)
              => (cpc[c] = "done" /\ cres[c] = cstat[c].last
                  /\ cstat[c].writes = ci[c] + 1 /\ cstat[c].fnCalls = ci[c] + 1)
        /\ (cres[c] \in StoreErrors)
              => (cpc[c] = "done" /\ cstat[c].reads = ci[c] + 1
                  /\ cstat[c].writes \in {ci[c], ci[c] + 1}
                  /\ cstat[c].fnCalls = cstat[c].writes)

\* One call ended with the store error of its second write, another with
\* the store error of its second read, both with retries to spare.
C11_Witness ==
    \E a, b \in Callers :
        /\ cres[a] \in StoreErrors /\ cstat[a].last = cres[a]
        /\ ci[a] = 1 /\ ci[a] < retries(a)
        /\ cres[b] \in StoreErrors /\ cstat[b].last \in Conflict
        /\ ci[b] = 1 /\ ci[b] < retries(b) /\ cstat[b].writes = 1

\* The step in which caller c's read is answered.
ReadAnswered(c) == cpc[c] = "read" /\ cpc'[c] # "read"

\* C12: in createOrUpdate without initialValue, a read that finds no
\* document ends a mustFind call with 404 before the transition function is
\* invoked; without mustFind the read raises nothing and the transition
\* function is invoked next with an undefined previous model.
C12_MissingDocument ==
    [][\A c \in Callers :
          (ReadAnswered(c) /\ ~cinit[c].has /\ ~store.exists)
          => IF cfg[c].mustFind
             THEN /\ cpc'[c] = "done"
                  /\ cres'[c] = "404"
                  /\ cstat'[c].fnCalls = 0
                  /\ cstat'[c].writes = 0
             ELSE /\ cpc'[c] = "fn"
                  /\ cres'[c] = "none"
                  /\ ~cmodel'[c].has]_vars

\* A mustFind call has ended with 404 without running its function, while a
\* call without mustFind was handed no previous model and created the
\* document with counter 1.
C12_Witness ==
    \E a, b \in Callers :
        /\ cfg[a].mustFind /\ cres[a] = "404" /\ cstat[a].fnCalls = 0
        /\ ~cfg[b].mustFind /\ cfg[b].fn = "inc" /\ cres[b] = "ok"
        /\ cstat[b].reads = 1 /\ cstat[b].fnCalls = 1 /\ cmodel[b].val = 1

\* ----------------------------------------------------------- atomic.update
\* Every caller has read the stored document into an entity and invoked
\* update(entity, updateFn, options), which calls createOrUpdate with
\* { ...options, initialValue: model, mustFind: true }.
InitUpdate ==
    /\ store = [exists |-> TRUE, val |-> 0, etag |-> 1]
    /\ etagSeq = 1
    /\ props = [e \in Entities |-> [val |-> e, etag |-> 0]]
    /\ pc = [e \in Entities |-> "idle"]
    /\ op = [e \in Entities |-> "none"]
    /\ via = [e \in Entities |-> "none"]
    /\ opts = [e \in Entities |-> [force |-> FALSE, accessCondition |-> "unset"]]
    /\ tokAtCall = [e \in Entities |-> 0]
    /\ calls = [e \in Entities |-> <<>>]
    /\ reqs = [e \in Entities |-> <<>>]
    /\ result = [e \in Entities |-> "none"]
    /\ cfg \in [Callers -> Configs]
    /\ \A c \in Callers : cfg[c].mustFind
    /\ \A c \in Callers : c + 1 \in Callers => configKey(cfg[c]) <= configKey(cfg[c + 1])
    /\ cpc = [c \in Callers |-> "read"]
    /\ ci = [c \in Callers |-> 0]
    /\ cent = [c \in Callers |-> [has |-> TRUE, val |-> store.val, etag |-> store.etag]]
    /\ cinit = cent
    /\ cmodel = [c \in Callers |-> NoModel]
    /\ cstat = [c \in Callers |->
                  [fnCalls |-> 0, reads |-> 0, writes |-> 0, commits |-> 0, last |-> "none"]]
    /\ cres = [c \in Callers |-> "none"]
    /\ NoBuilder

\* Variant of the wrapper that leaves the entity's props as they are.
UpdFn_noRebind(c) ==
    /\ cpc[c] = "fn"
    /\ LET u == updateFn(cfg[c].fn, cent[c])
       IN /\ cstat' = [cstat EXCEPT ![c].fnCalls = @ + 1]
          /\ IF u.abort
             THEN /\ cpc' = [cpc EXCEPT ![c] = "done"]
                  /\ cres' = [cres EXCEPT ![c] = "undefined"]
                  /\ UNCHANGED cent
             ELSE /\ cpc' = [cpc EXCEPT ![c] = "save"]
                  /\ cent' = [cent EXCEPT ![c] = u.model]
                  /\ UNCHANGED cres
    /\ UNCHANGED <<store, etagSeq, cfg, ci, cinit, cmodel>>
    /\ UNCHANGED <<modelVars, schemaVars, queryVars, codecVars, connVars>>

\* m => { model.props = m!.props; return updateFn(model); } and the abort
\* test of createOrUpdate; cmodel[c] keeps m as it was read.
UpdFn(c) ==
    /\ cpc[c] = "fn"
    /\ LET u == updateFn(cfg[c].fn, cmodel[c])
       IN /\ cstat' = [cstat EXCEPT ![c].fnCalls = @ + 1]
          /\ IF u.abort
             THEN /\ cpc' = [cpc EXCEPT ![c] = "done"]
                  /\ cres' = [cres EXCEPT ![c] = "undefined"]
                  /\ cent' = [cent EXCEPT ![c] = cmodel[c]]
             ELSE /\ cpc' = [cpc EXCEPT ![c] = "save"]
                  /\ cent' = [cent EXCEPT ![c] = u.model]
                  /\ UNCHANGED cres
    /\ UNCHANGED <<store, etagSeq, cfg, ci, cinit, cmodel>>
    /\ UNCHANGED <<modelVars, schemaVars, queryVars, codecVars, connVars>>

\* Variant of UpdSave whose catch keeps initialValue.
UpdSave_keepInitial(c) ==
    /\ cpc[c] = "save"
    /\ LET m == cent[c]
           r == IF saveTarget(m) = "create"
                THEN StoreCreate(store, etagSeq, m.val)
                ELSE StoreUpsert(store, etagSeq, m.val,
                                 updateCondition(m, [force |-> FALSE, accessCondition |-> "unset"]))
       IN /\ store' = r.store
          /\ etagSeq' = r.seq
          /\ cstat' = [cstat EXCEPT ![c].writes = @ + 1,
                                    ![c].commits = IF r.code = "ok" THEN @ + 1 ELSE @,
                                    ![c].last = r.code]
          /\ IF r.code = "ok"
             THEN /\ cent' = [cent EXCEPT ![c] = [has |-> TRUE, val |-> r.store.val,
                                                 etag |-> r.store.etag]]
                  /\ cpc' = [cpc EXCEPT ![c] = "done"]
                  /\ cres' = [cres EXCEPT ![c] = "ok"]
                  /\ UNCHANGED <<ci, cinit>>
             ELSE IF shouldRetry(r.code, ci[c], retries(c))
             THEN /\ ci' = [ci EXCEPT ![c] = @ + 1]
                  /\ cpc' = [cpc EXCEPT ![c] = "read"]
                  /\ UNCHANGED <<cent, cres, cinit>>
             ELSE /\ cpc' = [cpc EXCEPT ![c] = "done"]
                  /\ cres' = [cres EXCEPT ![c] = r.code]
                  /\ UNCHANGED <<cent, ci, cinit>>
    /\ UNCHANGED <<cfg, cmodel>>
    /\ UNCHANGED <<modelVars, schemaVars, queryVars, codecVars, connVars>>

\* await updated.save(...) where `updated` is the entity, and the catch.
UpdSave(c) ==
    /\ cpc[c] = "save"
    /\ LET m == cent[c]
           r == IF saveTarget(m) = "create"
                THEN StoreCreate(store, etagSeq, m.val)
                ELSE StoreUpsert(store, etagSeq, m.val,
                                 updateCondition(m, [force |-> FALSE, accessCondition |-> "unset"]))
       IN /\ store' = r.store
          /\ etagSeq' = r.seq
          /\ cstat' = [cstat EXCEPT ![c].writes = @ + 1,
                                    ![c].commits = IF r.code = "ok" THEN @ + 1 ELSE @,
                                    ![c].last = r.code]
          /\ IF r.code = "ok"
             THEN /\ cent' = [cent EXCEPT ![c] = [has |-> TRUE, val |-> r.store.val,
                                                 etag |-> r.store.etag]]
                  /\ cpc' = [cpc EXCEPT ![c] = "done"]
                  /\ cres' = [cres EXCEPT ![c] = "ok"]
                  /\ UNCHANGED <<ci, cinit>>
             ELSE IF shouldRetry(r.code, ci[c], retries(c))
             THEN /\ ci' = [ci EXCEPT ![c] = @ + 1]
                  /\ cinit' = [cinit EXCEPT ![c] = NoModel]
                  /\ cpc' = [cpc EXCEPT ![c] = "read"]
                  /\ UNCHANGED <<cent, cres>>
             ELSE /\ cpc' = [cpc EXCEPT ![c] = "done"]
                  /\ cres' = [cres EXCEPT ![c] = r.code]
                  /\ UNCHANGED <<cent, ci, cinit>>
    /\ UNCHANGED <<cfg, cmodel>>
    /\ UNCHANGED <<modelVars, schemaVars, queryVars, codecVars, connVars>>

NextUpdate ==
    \E c \in Callers :
        \/ Read(c)
        \/ UpdFn(c)
        \/ UpdSave(c)

SpecUpdate == InitUpdate /\ [][NextUpdate]_vars

\* C13: in atomic.update the entity that goes to the write always carries
\* the transition applied to the model bound in the same attempt: the
\* initial value on the first attempt, the freshly read model, _etag
\* included, on every retry. Nothing a failed attempt did to the entity
\* survives into the next one, and each retry reads exactly once.
C13_RebindOnRetry ==
    \A c \in Callers :
        /\ (cpc[c] = "save")
              => /\ cent[c] = updateFn(cfg[c].fn, cmodel[c]).model
                 /\ cent[c].val = cmodel[c].val + 1
                 /\ cent[c].etag = cmodel[c].etag
        /\ (cpc[c] \in {"fn", "save"}) => (cmodel[c].has /\ cstat[c].reads = ci[c])
        /\ (cres[c] = "ok") => (cent[c].val = cmodel[c].val + 1 /\ cent[c].etag > cmodel[c].etag)

\* An update() lost its first write to another caller, was re-bound to the
\* document that caller wrote, and committed counter 2 on its second attempt.
C13_Witness ==
    \E c \in Callers :
        /\ cres[c] = "ok"
        /\ cstat[c].fnCalls = 2
        /\ cstat[c].reads = 1
        /\ cmodel[c].val = 1
        /\ cent[c].val = 2
        /\ store.val = 2

\* C14: inside one createOrUpdate call the steps of every attempt follow one
\* another: before the read of attempt i+1 all i earlier attempts have read,
\* run the function and had their write answered; the function runs only
\* after this attempt's read, the write only after this attempt's function,
\* and a finished call never shows a step of a later attempt.
C14_AttemptOrder ==
    \A c \in Callers :
        LET s == cstat[c]
        IN /\ (cpc[c] = "read") => (s.reads = ci[c] /\ s.fnCalls = ci[c] /\ s.writes = ci[c])
           /\ (cpc[c] = "fn") => (s.reads = ci[c] + 1 /\ s.fnCalls = ci[c] /\ s.writes = ci[c])
           /\ (cpc[c] = "save")
                 => (s.reads = ci[c] + 1 /\ s.fnCalls = ci[c] + 1 /\ s.writes = ci[c])
           /\ (cpc[c] = "done")
                 => (s.reads = ci[c] + 1 /\ s.fnCalls <= s.reads /\ s.writes <= s.fnCalls
                     /\ s.writes >= ci[c])
           /\ (cpc[c] = "read" /\ ci[c] > 0) => (s.last \in Conflict)

\* A caller stands between the function and the write of its second attempt.
C14_Witness ==
    \E c \in Callers :
        /\ cpc[c] = "save"
        /\ ci[c] = 1
        /\ cstat[c].reads = 2
        /\ cstat[c].fnCalls = 2
        /\ cstat[c].writes = 1

\* C15: the successful answer to the request of create(), update() or
\* save() leaves the instance with the val and _etag the store now holds,
\* and they are still the instance's when the call returns; an update()
\* without force and without an access-condition override, by an instance
\* whose _etag is still the stored one (nobody wrote since), is not rejected.
C15_FreshAfterWrite ==
    [][\A e \in Entities :
          /\ (Answered(e) /\ pc'[e] = "afterOp")
                => /\ store'.exists
                   /\ store'.etag = etagSeq + 1
                   /\ props'[e] = [val |-> store'.val, etag |-> store'.etag]
          /\ (pc[e] = "afterOp" /\ pc'[e] = "done")
                => (result'[e] = "ok" /\ props'[e] = props[e] /\ props[e].etag > tokAtCall[e])
          /\ (/\ Answered(e)
              /\ op[e] = "update"
              /\ ~opts[e].force
              /\ opts[e].accessCondition = "unset"
              /\ props[e].etag # 0
              /\ props[e].etag = store.etag)
                => (pc'[e] = "afterOp" /\ result'[e] = "none")]_vars

\* An instance created the document and then updated it without force; the
\* other instances never held an _etag, and the update returned ok.
C15_Witness ==
    \E e \in Entities :
        /\ pc[e] = "done"
        /\ via[e] = "update"
        /\ ~opts[e].force
        /\ opts[e].accessCondition = "unset"
        /\ result[e] = "ok"
        /\ tokAtCall[e] = 1
        /\ reqs[e] = <<"upsertIfMatch">>
        /\ props[e].etag = 2
        /\ store.etag = 2
        /\ \A o \in Entities \ {e} : props[o].etag = 0

BeforeHooks == {"beforeCreate", "beforeUpdate", "beforePersist"}
AfterHooks == {"afterPersist", "afterCreate", "afterUpdate"}

LastCall(s) == s[Len(s)]

\* `await this.before<Op>()` rejects.
BeforeOpThrows(e) ==
    /\ pc[e] = "idle"
    /\ \E m \in {"create", "update"}, o \in Options :
          /\ op' = [op EXCEPT ![e] = m]
          /\ via' = [via EXCEPT ![e] = m]
          /\ opts' = [opts EXCEPT ![e] = o]
          /\ calls' = [calls EXCEPT ![e] = <<beforeOpHook(m)>>]
    /\ pc' = [pc EXCEPT ![e] = "done"]
    /\ tokAtCall' = [tokAtCall EXCEPT ![e] = props[e].etag]
    /\ reqs' = [reqs EXCEPT ![e] = <<>>]
    /\ result' = [result EXCEPT ![e] = "hookError"]
    /\ UNCHANGED <<store, etagSeq, props>>
    /\ UNCHANGED <<atomicVars, schemaVars, queryVars, codecVars, connVars>>

\* Variant of BeforePersistThrows for a hook that is not awaited: the request
\* goes out although the hook rejects.
BeforePersistThrows_notAwaited(e) ==
    /\ pc[e] = "beforePersist"
    /\ LET cond == updateCondition(props[e], opts[e])
           r == IF op[e] = "create"
                THEN StoreCreate(store, etagSeq, props[e].val)
                ELSE StoreUpsert(store, etagSeq, props[e].val, cond)
       IN /\ reqs' = [reqs EXCEPT ![e] = Append(@, requestKind(op[e], cond))]
          /\ store' = r.store
          /\ etagSeq' = r.seq
    /\ calls' = [calls EXCEPT ![e] = Append(@, "beforePersist")]
    /\ pc' = [pc EXCEPT ![e] = "done"]
    /\ result' = [result EXCEPT ![e] = "hookError"]
    /\ UNCHANGED <<props, op, via, opts, tokAtCall>>
    /\ UNCHANGED <<atomicVars, schemaVars, queryVars, codecVars, connVars>>

\* `await this.beforePersist()` rejects.
BeforePersistThrows(e) ==
    /\ pc[e] = "beforePersist"
    /\ calls' = [calls EXCEPT ![e] = Append(@, "beforePersist")]
    /\ pc' = [pc EXCEPT ![e] = "done"]
    /\ result' = [result EXCEPT ![e] = "hookError"]
    /\ UNCHANGED <<store, etagSeq, props, op, via, opts, tokAtCall, reqs>>
    /\ UNCHANGED <<atomicVars, schemaVars, queryVars, codecVars, connVars>>

\* Variant of AfterPersistThrows with the hook awaited before the response
\* is assigned to props.
AfterPersistThrows_beforeAssign(e) ==
    /\ pc[e] = "request"
    /\ LET cond == updateCondition(props[e], opts[e])
           r == IF op[e] = "create"
                THEN StoreCreate(store, etagSeq, props[e].val)
                ELSE StoreUpsert(store, etagSeq, props[e].val, cond)
       IN /\ r.code = "ok"
          /\ reqs' = [reqs EXCEPT ![e] = Append(@, requestKind(op[e], cond))]
          /\ store' = r.store
          /\ etagSeq' = r.seq
    /\ calls' = [calls EXCEPT ![e] = Append(@, "afterPersist")]
    /\ pc' = [pc EXCEPT ![e] = "done"]
    /\ result' = [result EXCEPT ![e] = "hookError"]
    /\ UNCHANGED <<props, op, via, opts, tokAtCall>>
    /\ UNCHANGED <<atomicVars, schemaVars, queryVars, codecVars, connVars>>

\* The store request succeeds, `this.props = response.resource`, and
\* `await this.afterPersist()` rejects.
AfterPersistThrows(e) ==
    /\ pc[e] = "request"
    /\ LET cond == updateCondition(props[e], opts[e])
           r == IF op[e] = "create"
                THEN StoreCreate(store, etagSeq, props[e].val)
                ELSE StoreUpsert(store, etagSeq, props[e].val, cond)
       IN /\ r.code = "ok"
          /\ reqs' = [reqs EXCEPT ![e] = Append(@, requestKind(op[e], cond))]
          /\ store' = r.store
          /\ etagSeq' = r.seq
          /\ props' = [props EXCEPT ![e] = [val |-> r.store.val, etag |-> r.store.etag]]
    /\ calls' = [calls EXCEPT ![e] = Append(@, "afterPersist")]
    /\ pc' = [pc EXCEPT ![e] = "done"]
    /\ result' = [result EXCEPT ![e] = "hookError"]
    /\ UNCHANGED <<op, via, opts, tokAtCall>>
    /\ UNCHANGED <<atomicVars, schemaVars, queryVars, codecVars, connVars>>

\* The last hook of the method, `await this.afterCreate()`, rejects.
AfterOpThrows(e) ==
    /\ pc[e] = "afterOp"
    /\ calls' = [calls EXCEPT ![e] = Append(@, afterOpHook(op[e]))]
    /\ pc' = [pc EXCEPT ![e] = "done"]
    /\ result' = [result EXCEPT ![e] = "hookError"]
    /\ UNCHANGED <<store, etagSeq, props, op, via, opts, tokAtCall, reqs>>
    /\ UNCHANGED <<atomicVars, schemaVars, queryVars, codecVars, connVars>>

NextHooks ==
    \E e \in Entities :
        \/ create(e)
        \/ update(e)
        \/ BeforePersist(e)
        \/ Request(e)
        \/ AfterOp(e)
        \/ Return(e)
        \/ BeforeOpThrows(e)
        \/ BeforePersistThrows(e)
        \/ AfterPersistThrows(e)
        \/ AfterOpThrows(e)

SpecHooks == Init /\ [][NextHooks]_vars

\* The step in which a hook of instance e's call rejects.
HookThrows(e) == result[e] # "hookError" /\ result'[e] = "hookError"

\* C17: when before<Op> or beforePersist rejects in create() or update(),
\* the call ends with that error in the same step, has sent no store
\* request, has run no after-hook, and the stored document, the etag
\* counter and the instance's props and _etag are what they were.
C17_BeforeHookFailure ==
    [][\A e \in Entities :
          (HookThrows(e) /\ LastCall(calls'[e]) \in BeforeHooks)
          => /\ pc'[e] = "done"
             /\ reqs'[e] = <<>>
             /\ store' = store
             /\ etagSeq' = etagSeq
             /\ props'[e] = props[e]
             /\ props'[e].etag = tokAtCall'[e]
             /\ \A i \in DOMAIN calls'[e] : calls'[e][i] \in BeforeHooks]_vars

\* An update() of the instance that created the document ended in the
\* rejection of beforePersist; the document is still the one it created.
C17_Witness ==
    \E e \in Entities :
        /\ pc[e] = "done"
        /\ result[e] = "hookError"
        /\ calls[e] = <<"beforeUpdate", "beforePersist">>
        /\ reqs[e] = <<>>
        /\ store.exists
        /\ store.val = e
        /\ props[e].etag = store.etag

\* C18: when afterPersist or the method's last hook rejects in create() or
\* update(), the call ends with that error after exactly one store request
\* that was committed: the instance holds the val and a newer _etag the
\* store answered with, and when afterPersist rejects the stored document
\* is the one just written.
C18_AfterHookFailure ==
    [][\A e \in Entities :
          (HookThrows(e) /\ LastCall(calls'[e]) \in AfterHooks)
          => /\ pc'[e] = "done"
             /\ Len(reqs'[e]) = 1
             /\ store'.exists
             /\ props'[e].etag > tokAtCall'[e]
             /\ props'[e].etag <= store'.etag
             /\ (props'[e].etag = store'.etag) => (props'[e].val = store'.val)
             /\ (pc[e] = "request")
                   => (store'.etag = etagSeq + 1
                       /\ props'[e] = [val |-> store'.val, etag |-> store'.etag])
             /\ (pc[e] = "afterOp") => (store' = store /\ props'[e] = props[e])]_vars

\* One create() ended in the rejection of afterPersist, one update() in the
\* rejection of its last hook; both instances hold an _etag of the store.
C18_Witness ==
    \E a, b \in Entities :
        /\ result[a] = "hookError" /\ op[a] = "create" /\ Len(calls[a]) = 3
        /\ props[a].etag = 1
        /\ result[b] = "hookError" /\ op[b] = "update" /\ Len(calls[b]) = 4
        /\ props[b].etag = store.etag
        /\ store.val = b

\* ------------------------------------------------------- schema validation
\* Props that violate the JSON schema of the model (the test's Set of four
\* favoriteColors against maxItems 3) are props with val 0; what an instance
\* is constructed with is valid.
schemaValid(p) == p.val \in Entities

\* The application changes an idle instance's props into invalid ones:
\* user.props.favoriteColors.add('green'); ...add('purple').
Invalidate(e) ==
    /\ pc[e] = "idle"
    /\ schemaValid(props[e])
    /\ props' = [props EXCEPT ![e].val = 0]
    /\ UNCHANGED <<store, etagSeq, pc, op, via, opts, tokAtCall, calls, reqs, result>>
    /\ UNCHANGED <<atomicVars, schemaVars, queryVars, codecVars, connVars>>

NextValidate ==
    \E e \in Entities :
        \/ create(e)
        \/ update(e)
        \/ save(e)
        \/ BeforePersist(e)
        \/ Request(e)
        \/ AfterOp(e)
        \/ Return(e)
        \/ Invalidate(e)

SpecValidate == Init /\ [][NextValidate]_vars

\* C19: create(), update() and save() called (without validate: false, an
\* option the calls of this model never carry) on an instance whose props
\* violate the schema send no store request and end with the validation
\* error; the stored document never holds invalid props.
C19_ValidatesBeforeRequest ==
    \A e \in Entities :
        /\ (pc[e] # "idle" /\ ~schemaValid(props[e]))
              => /\ reqs[e] = <<>>
                 /\ (pc[e] = "done") => (result[e] = "validationError")
        /\ store.exists => store.val \in Entities

\* ------------------------------------------------------------------ delete
\* Partition.delete -> container.item(id, partitionKey).delete(options):
\* 404 when there is no document, 412 when an IfMatch condition (cond # 0)
\* differs from the stored _etag, otherwise the document is gone.
StoreDelete(s, cond) ==
    IF ~s.exists THEN [code |-> "404", store |-> s]
    ELSE IF cond # 0 /\ cond # s.etag THEN [code |-> "412", store |-> s]
    ELSE [code |-> "ok", store |-> NoDoc]

\* The id is free, or taken by a document some earlier process wrote.
InitDelete ==
    /\ store \in {NoDoc, [exists |-> TRUE, val |-> 1, etag |-> 1]}
    /\ etagSeq = store.etag
    /\ props = [e \in Entities |-> [val |-> e, etag |-> 0]]
    /\ pc = [e \in Entities |-> "idle"]
    /\ op = [e \in Entities |-> "none"]
    /\ via = [e \in Entities |-> "none"]
    /\ opts = [e \in Entities |-> [force |-> FALSE, accessCondition |-> "unset"]]
    /\ tokAtCall = [e \in Entities |-> 0]
    /\ calls = [e \in Entities |-> <<>>]
    /\ reqs = [e \in Entities |-> <<>>]
    /\ result = [e \in Entities |-> "none"]
    /\ cpc = [c \in Callers |-> "done"]
    /\ cfg = [c \in Callers |-> [retries |-> Unset, mustFind |-> FALSE, fn |-> "inc"]]
    /\ ci = [c \in Callers |-> 0]
    /\ cinit = [c \in Callers |-> NoModel]
    /\ cmodel = [c \in Callers |-> NoModel]
    /\ cent = [c \in Callers |-> NoModel]
    /\ cstat = [c \in Callers |->
                  [fnCalls |-> 0, reads |-> 0, writes |-> 0, commits |-> 0, last |-> "none"]]
    /\ cres = [c \in Callers |-> "none"]
    /\ NoBuilder

\* Variant of delete without the check for an _etag.
delete_noPrecondition(e) ==
    /\ pc[e] = "idle"
    /\ \E f \in BOOLEAN :
          /\ opts' = [opts EXCEPT ![e] = [force |-> f, accessCondition |-> "unset"]]
          /\ pc' = [pc EXCEPT ![e] = "deleteRequest"]
          /\ calls' = [calls EXCEPT ![e] = <<"beforeDelete">>]
          /\ UNCHANGED result
    /\ op' = [op EXCEPT ![e] = "delete"]
    /\ via' = [via EXCEPT ![e] = "delete"]
    /\ tokAtCall' = [tokAtCall EXCEPT ![e] = props[e].etag]
    /\ reqs' = [reqs EXCEPT ![e] = <<>>]
    /\ UNCHANGED <<store, etagSeq, props>>
    /\ UNCHANGED <<atomicVars, schemaVars, queryVars, codecVars, connVars>>

\* delete(options): without force an instance that has no _etag is refused
\* before anything else happens; otherwise `await this.beforeDelete()`.
delete(e) ==
    /\ pc[e] = "idle"
    /\ \E f \in BOOLEAN :
          /\ opts' = [opts EXCEPT ![e] = [force |-> f, accessCondition |-> "unset"]]
          /\ IF ~f /\ props[e].etag = 0
             THEN /\ pc' = [pc EXCEPT ![e] = "done"]
                  /\ result' = [result EXCEPT ![e] = "preconditionMissing"]
                  /\ calls' = [calls EXCEPT ![e] = <<>>]
             ELSE /\ pc' = [pc EXCEPT ![e] = "deleteRequest"]
                  /\ calls' = [calls EXCEPT ![e] = <<"beforeDelete">>]
                  /\ UNCHANGED result
    /\ op' = [op EXCEPT ![e] = "delete"]
    /\ via' = [via EXCEPT ![e] = "delete"]
    /\ tokAtCall' = [tokAtCall EXCEPT ![e] = props[e].etag]
    /\ reqs' = [reqs EXCEPT ![e] = <<>>]
    /\ UNCHANGED <<store, etagSeq, props>>
    /\ UNCHANGED <<atomicVars, schemaVars, queryVars, codecVars, connVars>>

\* The delete request, IfMatch on the instance's _etag unless forced, and on
\* success `await this.afterDelete()`.
DeleteRequest(e) ==
    /\ pc[e] = "deleteRequest"
    /\ LET cond == IF opts[e].force THEN 0 ELSE props[e].etag
           r == StoreDelete(store, cond)
       IN /\ reqs' = [reqs EXCEPT ![e] = Append(@, IF cond # 0 THEN "deleteIfMatch" ELSE "delete")]
          /\ store' = r.store
          /\ result' = [result EXCEPT ![e] = r.code]
          /\ calls' = [calls EXCEPT ![e] = IF r.code = "ok" THEN Append(@, "afterDelete") ELSE @]
    /\ pc' = [pc EXCEPT ![e] = "done"]
    /\ UNCHANGED <<etagSeq, props, op, via, opts, tokAtCall>>
    /\ UNCHANGED <<atomicVars, schemaVars, queryVars, codecVars, connVars>>

NextDelete ==
    \E e \in Entities :
        \/ create(e)
        \/ BeforePersist(e)
        \/ Request(e)
        \/ AfterOp(e)
        \/ Return(e)
        \/ Find(e)
        \/ delete(e)
        \/ DeleteRequest(e)

SpecDelete == InitDelete /\ [][NextDelete]_vars

\* C20: delete() without force on an instance that has no _etag ends at once
\* with the precondition-missing error, having run no hook and sent no
\* request, and the stored document stays; delete({force: true}) on such an
\* instance sends an unconditional delete, which removes the document when
\* there is one.
C20_DeletePrecondition ==
    [][\A e \in Entities :
          /\ (pc[e] = "idle" /\ op'[e] = "delete" /\ props[e].etag = 0 /\ ~opts'[e].force)
                => /\ pc'[e] = "done"
                   /\ result'[e] = "preconditionMissing"
                   /\ calls'[e] = <<>>
                   /\ reqs'[e] = <<>>
                   /\ store' = store
          /\ (/\ pc[e] = "deleteRequest"
              /\ pc'[e] # "deleteRequest"
              /\ tokAtCall[e] = 0
              /\ opts[e].force)
                => /\ reqs'[e] = <<"delete">>
                   /\ ~store'.exists
                   /\ store.exists => (result'[e] = "ok" /\ pc'[e] = "done")]_vars

\* With a document under the id, one new instance was refused its delete()
\* and then another new instance removed the document with force.
C20_Witness ==
    \E a, b \in Entities :
        /\ pc[a] = "done" /\ op[a] = "delete" /\ ~opts[a].force
        /\ result[a] = "preconditionMissing" /\ props[a].etag = 0
        /\ pc[b] = "done" /\ op[b] = "delete" /\ opts[b].force
        /\ result[b] = "ok" /\ tokAtCall[b] = 0 /\ reqs[b] = <<"delete">>
        /\ etagSeq = 1
        /\ ~store.exists

\* ------------------------------------------------------ Schema, the builder
\* The number of builder calls made on schemas derived from createSchema().
MaxCalls == 2

\* A key that is absent (or undefined) and a key that holds v.
None == <<>>
Some(v) == <<v>>

Paths == {"/a", "/b"}
FieldNames == {"id", "username"}

\* The transform of the test schema's favoriteColors field.
SetCodec == "Transform(Set)"

\* Field configurations (ISchemaField), as lists of <<key, value>>.
FieldConfigs ==
    { << <<"type", "string">>, <<"isRequired", "true">> >>,
      << <<"type", "array">>, <<"transform", SetCodec>>, <<"maxItems", "3">> >> }

\* The argument lists field() is called with: (name, typeOrConfig, fieldConfig).
Undefined == [kind |-> "undefined"]
asType == [kind |-> "AsType", isOptional |-> FALSE]
optional == [kind |-> "AsType", isOptional |-> TRUE]
Config(c) == [kind |-> "config", keys |-> c]

FieldArgs ==
    {a \in [name : FieldNames,
            typeOrConfig : {Undefined, asType, optional} \cup {Config(c) : c \in FieldConfigs},
            fieldConfig : {Undefined} \cup {Config(c) : c \in FieldConfigs}] :
        \* a config as second argument is never followed by a third one
        a.typeOrConfig.kind # "AsType" => a.fieldConfig = Undefined}

\* The value of key k of the object o, "undefined" when o has no such key.
RECURSIVE get(_, _)
get(o, k) ==
    IF o = <<>> THEN "undefined"
    ELSE IF o[Len(o)][1] = k THEN o[Len(o)][2]
    ELSE get(SubSeq(o, 1, Len(o) - 1), k)

\* const { isRequired, transform, ...schema } = config
rest(o) == SelectSeq(o, LAMBDA kv : kv[1] \notin {"isRequired", "transform"})

\* { ...map, [name]: entry }: an existing key keeps its place.
setField(map, entry) ==
    IF \E i \in 1..Len(map) : map[i].name = entry.name
    THEN [i \in 1..Len(map) |-> IF map[i].name = entry.name THEN entry ELSE map[i]]
    ELSE Append(map, entry)

\* Variant of concat that starts a new list on every call.
concat_fresh(arr, items) == Some(items)

\* concat(arr, ...items)
concat(arr, items) == IF arr # None THEN Some(arr[1] \o items) ELSE Some(items)

\* A definition with none of the optional keys of a ContainerRequest.
Definition(id) ==
    [id |-> id, defaultTtl |-> None, indexingPolicy |-> None, uniqueKeyPolicy |-> None,
     partitionKey |-> None, conflictResolutionPolicy |-> None, geospatialConfig |-> None,
     throughput |-> None, maxThroughput |-> None, autoUpgradePolicy |-> None]

NoPolicy == [excludedPaths |-> None, includedPaths |-> None]

\* this.definition.indexingPolicy, spread: undefined spreads to no keys.
indexingPolicy(d) == IF d.indexingPolicy = None THEN NoPolicy ELSE d.indexingPolicy[1]

\* Variant of newSchema that rewrites the receiver and returns it.
newSchema_inPlace(h, this, schemaMap, definition) ==
    [h EXCEPT ![this] = [schemaMap |-> schemaMap, definition |-> definition]]

\* new Schema(schemaMap, definition): a new object on the heap h.
newSchema(h, this, schemaMap, definition) ==
    Append(h, [schemaMap |-> schemaMap, definition |-> definition])

createSchema(containerName) ==
    [schemaMap |-> << [name |-> "id", transform |-> "undefined", required |-> TRUE,
                       schema |-> << <<"type", "string">> >>] >>,
     definition |-> Definition(containerName)]

\* ---- the builder methods: h is the heap of Schema objects, this the receiver
field(h, this, name, typeOrConfig, fieldConfig) ==
    LET type == IF typeOrConfig.kind = "AsType" THEN typeOrConfig ELSE Undefined
        config == IF typeOrConfig.kind = "AsType" THEN fieldConfig
                  ELSE IF typeOrConfig.kind = "config" THEN typeOrConfig
                  ELSE Undefined
        c == IF config.kind = "config" THEN config.keys ELSE <<>>
        isRequired == get(c, "isRequired")
        merged == setField(h[this].schemaMap,
                    [name |-> name,
                     transform |-> get(c, "transform"),
                     required |-> \/ isRequired = "true"
                                  \/ (type.kind = "AsType" /\ type.isOptional = FALSE),
                     schema |-> rest(c)])
    IN  newSchema(h, this, merged, h[this].definition)

ttl(h, this, duration) ==
    newSchema(h, this, h[this].schemaMap,
              [h[this].definition EXCEPT !.defaultTtl = duration])

enableTtlWithoutDefault(h, this) == ttl(h, this, Some(-1))

removeFromIndex(h, this, paths) ==
    newSchema(h, this, h[this].schemaMap,
              [h[this].definition EXCEPT !.indexingPolicy =
                  Some([indexingPolicy(h[this].definition) EXCEPT !.excludedPaths =
                          concat(indexingPolicy(h[this].definition).excludedPaths,
                                 [i \in 1..Len(paths) |-> [path |-> paths[i]]])])])

removeAllFromIndex(h, this) == removeFromIndex(h, this, <<"/*">>)

addToIndex(h, this, path, indexes) ==
    newSchema(h, this, h[this].schemaMap,
              [h[this].definition EXCEPT !.indexingPolicy =
                  Some([indexingPolicy(h[this].definition) EXCEPT !.includedPaths =
                          concat(indexingPolicy(h[this].definition).includedPaths,
                                 <<[path |-> path, indexes |-> indexes]>>)])])

unique(h, this, paths) ==
    newSchema(h, this, h[this].schemaMap,
              [h[this].definition EXCEPT !.uniqueKeyPolicy =
                  Some([uniqueKeys |->
                          concat(IF h[this].definition.uniqueKeyPolicy = None THEN None
                                 ELSE Some(h[this].definition.uniqueKeyPolicy[1].uniqueKeys),
                                 <<[paths |-> paths]>>)[1]])])

\* Variant of partitionKey that adds the path to the ones already set.
partitionKey_append(h, this, path, partitionKeyCanBeLong) ==
    newSchema(h, this, h[this].schemaMap,
              [h[this].definition EXCEPT !.partitionKey =
                  Some([paths |-> (IF h[this].definition.partitionKey = None THEN <<>>
                                   ELSE h[this].definition.partitionKey[1].paths) \o <<path>>,
                        version |-> IF partitionKeyCanBeLong = Some(TRUE) THEN 2 ELSE 1])])

\* partitionKeyCanBeLong is None when the argument is left out (default false).
partitionKey(h, this, path, partitionKeyCanBeLong) ==
    newSchema(h, this, h[this].schemaMap,
              [h[this].definition EXCEPT !.partitionKey =
                  Some([paths |-> <<path>>,
                        version |-> IF partitionKeyCanBeLong = Some(TRUE) THEN 2 ELSE 1])])

setConflictResolution(h, this, policy) ==
    newSchema(h, this, h[this].schemaMap,
              [h[this].definition EXCEPT !.conflictResolutionPolicy = Some(policy)])

\* Variant of setGeospatialConfig that does not copy the receiver's definition.
setGeospatialConfig_noSpread(h, this, type) ==
    newSchema(h, this, h[this].schemaMap,
              [Definition(h[this].definition.id) EXCEPT !.geospatialConfig = Some([type |-> type])])

setGeospatialConfig(h, this, type) ==
    newSchema(h, this, h[this].schemaMap,
              [h[this].definition EXCEPT !.geospatialConfig = Some([type |-> type])])

\* throughput is a number, or an object with some of the three throughput keys.
setThroughput(h, this, throughput) ==
    newSchema(h, this, h[this].schemaMap,
              IF throughput.kind = "number"
              THEN [h[this].definition EXCEPT !.throughput = Some(throughput.n)]
              ELSE [k \in DOMAIN h[this].definition |->
                      IF k \in DOMAIN throughput.keys THEN throughput.keys[k]
                      ELSE h[this].definition[k]])

\* Variant of jsonSchema that requires every declared field.
jsonSchema_allRequired(s) ==
    [type |-> "object",
     required |-> [i \in 1..Len(s.schemaMap) |-> s.schemaMap[i].name],
     properties |-> [i \in 1..Len(s.schemaMap) |->
                        <<s.schemaMap[i].name, s.schemaMap[i].schema>>]]

\* BasicSchema.jsonSchema; properties is the list of <<field name, fragment>>.
jsonSchema(s) ==
    [type |-> "object",
     required |-> LET req == SelectSeq(s.schemaMap, LAMBDA f : f.required)
                  IN  [i \in 1..Len(req) |-> req[i].name],
     properties |-> [i \in 1..Len(s.schemaMap) |->
                        <<s.schemaMap[i].name, s.schemaMap[i].schema>>]]

\* ---- the builder calls a program makes
\* Nothing else of the program is running.
Quiet ==
    /\ store = NoDoc
    /\ etagSeq = 0
    /\ props = [e \in Entities |-> [val |-> e, etag |-> 0]]
    /\ pc = [e \in Entities |-> "idle"]
    /\ op = [e \in Entities |-> "none"]
    /\ via = [e \in Entities |-> "none"]
    /\ opts = [e \in Entities |-> [force |-> FALSE, accessCondition |-> "unset"]]
    /\ tokAtCall = [e \in Entities |-> 0]
    /\ calls = [e \in Entities |-> <<>>]
    /\ reqs = [e \in Entities |-> <<>>]
    /\ result = [e \in Entities |-> "none"]
    /\ cpc = [c \in Callers |-> "idle"]
    /\ cfg = [c \in Callers |-> [retries |-> Unset, mustFind |-> FALSE, fn |-> "inc"]]
    /\ ci = [c \in Callers |-> 0]
    /\ cinit = [c \in Callers |-> NoModel]
    /\ cmodel = [c \in Callers |-> NoModel]
    /\ cent = [c \in Callers |-> NoModel]
    /\ cstat = [c \in Callers |->
                  [fnCalls |-> 0, reads |-> 0, writes |-> 0, commits |-> 0, last |-> "none"]]
    /\ cres = [c \in Callers |-> "none"]

InitSchema ==
    /\ Quiet
    /\ NoConnection
    /\ schemas = <<createSchema("users")>>
    /\ lastCall = NoCall
    /\ params = <<>>
    /\ query = NoQuery
    /\ NoCodec

Receivers == {i \in 1..Len(schemas) : Len(schemas) <= MaxCalls}

Durations == {None, Some(60)}
PathLists == {<<"/a">>, <<"/b", "/a">>}
Indexes == << [kind |-> "Range", dataType |-> "String"] >>
Policies == {[mode |-> "LastWriterWins", conflictResolutionPath |-> "/_ts"]}
GeospatialTypes == {"Geography", "Geometry"}
Throughputs ==
    {[kind |-> "number", n |-> 400],
     [kind |-> "object", keys |-> [maxThroughput |-> Some(1000)]]}

Called(m, this, arg) ==
    /\ lastCall' = [method |-> m, on |-> this, arg |-> arg]
    /\ UNCHANGED <<store, etagSeq, modelVars, atomicVars, queryVars, codecVars, connVars>>

Field ==
    \E this \in Receivers, a \in FieldArgs :
        /\ schemas' = field(schemas, this, a.name, a.typeOrConfig, a.fieldConfig)
        /\ Called("field", this, a)

Ttl ==
    \E this \in Receivers, duration \in Durations :
        /\ schemas' = ttl(schemas, this, duration)
        /\ Called("ttl", this, duration)

EnableTtlWithoutDefault ==
    \E this \in Receivers :
        /\ schemas' = enableTtlWithoutDefault(schemas, this)
        /\ Called("enableTtlWithoutDefault", this, None)

RemoveFromIndex ==
    \E this \in Receivers, paths \in PathLists :
        /\ schemas' = removeFromIndex(schemas, this, paths)
        /\ Called("removeFromIndex", this, paths)

RemoveAllFromIndex ==
    \E this \in Receivers :
        /\ schemas' = removeAllFromIndex(schemas, this)
        /\ Called("removeAllFromIndex", this, None)

AddToIndex ==
    \E this \in Receivers, path \in Paths :
        /\ schemas' = addToIndex(schemas, this, path, Indexes)
        /\ Called("addToIndex", this, path)

Unique ==
    \E this \in Receivers, paths \in PathLists :
        /\ schemas' = unique(schemas, this, paths)
        /\ Called("unique", this, paths)

PartitionKey ==
    \E this \in Receivers, path \in Paths, long \in {None, Some(TRUE), Some(FALSE)} :
        /\ schemas' = partitionKey(schemas, this, path, long)
        /\ Called("partitionKey", this, [path |-> path, long |-> long])

SetConflictResolution ==
    \E this \in Receivers, policy \in Policies :
        /\ schemas' = setConflictResolution(schemas, this, policy)
        /\ Called("setConflictResolution", this, policy)

SetGeospatialConfig ==
    \E this \in Receivers, type \in GeospatialTypes :
        /\ schemas' = setGeospatialConfig(schemas, this, type)
        /\ Called("setGeospatialConfig", this, type)

SetThroughput ==
    \E this \in Receivers, throughput \in Throughputs :
        /\ schemas' = setThroughput(schemas, this, throughput)
        /\ Called("setThroughput", this, throughput)

NextSchema ==
    \/ Field
    \/ Ttl
    \/ EnableTtlWithoutDefault
    \/ RemoveFromIndex
    \/ RemoveAllFromIndex
    \/ AddToIndex
    \/ Unique
    \/ PartitionKey
    \/ SetConflictResolution
    \/ SetGeospatialConfig
    \/ SetThroughput

SpecSchema == InitSchema /\ [][NextSchema]_vars

\* The Schema the last call was made on, and the one it returned.
Receiver == schemas[lastCall.on]
Returned == schemas[Len(schemas)]

\* C23: a builder call leaves every Schema object that existed before it with
\* the field map and the definition it had.
C23_ReceiverUnchanged ==
    [][/\ Len(schemas') >= Len(schemas)
       /\ \A i \in 1..Len(schemas) : schemas'[i] = schemas[i]]_vars

\* The first Schema was the receiver of the first call and again of a later one.
C23_Witness ==
    /\ Len(schemas) = 3
    /\ lastCall.on = 1
    /\ lastCall.method = "field"
    /\ schemas[2] # schemas[1]
    /\ schemas[3] # schemas[1]
    /\ schemas[1] = createSchema("users")

\* The definition keys a method writes.
Target(m) ==
    CASE m \in {"ttl", "enableTtlWithoutDefault"} -> {"defaultTtl"}
      [] m \in {"removeFromIndex", "removeAllFromIndex", "addToIndex"} -> {"indexingPolicy"}
      [] m = "unique" -> {"uniqueKeyPolicy"}
      [] m = "partitionKey" -> {"partitionKey"}
      [] m = "setConflictResolution" -> {"conflictResolutionPolicy"}
      [] m = "setGeospatialConfig" -> {"geospatialConfig"}
      [] m = "setThroughput" -> {"throughput", "maxThroughput", "autoUpgradePolicy"}
      [] OTHER -> {}

\* C24: the Schema a builder call returns equals its receiver in the field
\* map and in every definition key the method does not target; field() leaves
\* the definition and every other field's entry equal; the targeted key holds
\* the value given.
C24_OneChange ==
    lastCall.method # "none" =>
        /\ \A k \in DOMAIN Receiver.definition \ Target(lastCall.method) :
              Returned.definition[k] = Receiver.definition[k]
        /\ lastCall.method # "field" => Returned.schemaMap = Receiver.schemaMap
        /\ lastCall.method = "field" =>
              /\ \A i \in 1..Len(Receiver.schemaMap) :
                    Receiver.schemaMap[i].name # lastCall.arg.name
                        => Returned.schemaMap[i] = Receiver.schemaMap[i]
              /\ Cardinality({i \in 1..Len(Returned.schemaMap) :
                                Returned.schemaMap[i].name = lastCall.arg.name}) = 1
              /\ Cardinality({i \in 1..Len(Returned.schemaMap) :
                                Returned.schemaMap[i].name # lastCall.arg.name})
                   = Cardinality({i \in 1..Len(Receiver.schemaMap) :
                                    Receiver.schemaMap[i].name # lastCall.arg.name})
        /\ lastCall.method = "ttl" => Returned.definition.defaultTtl = lastCall.arg
        /\ lastCall.method = "enableTtlWithoutDefault" =>
              Returned.definition.defaultTtl = Some(-1)
        /\ lastCall.method = "setGeospatialConfig" =>
              Returned.definition.geospatialConfig = Some([type |-> lastCall.arg])
        /\ lastCall.method = "setConflictResolution" =>
              Returned.definition.conflictResolutionPolicy = Some(lastCall.arg)
        /\ (lastCall.method = "setThroughput" /\ lastCall.arg.kind = "number") =>
              Returned.definition.throughput = Some(lastCall.arg.n)
        /\ (lastCall.method = "setThroughput" /\ lastCall.arg.kind = "object") =>
              /\ Returned.definition.maxThroughput = lastCall.arg.keys.maxThroughput
              /\ Returned.definition.throughput = Receiver.definition.throughput

\* setGeospatialConfig was called on a Schema that already had a partition key.
C24_Witness ==
    /\ lastCall.method = "setGeospatialConfig"
    /\ Receiver.definition.partitionKey # None
    /\ Returned.definition.partitionKey = Receiver.definition.partitionKey
    /\ Returned.definition.geospatialConfig # Receiver.definition.geospatialConfig

\* The list held under an optional key, empty when the key is absent.
ListOf(opt) == IF opt = None THEN <<>> ELSE opt[1]

UniqueKeys(d) == IF d.uniqueKeyPolicy = None THEN <<>> ELSE d.uniqueKeyPolicy[1].uniqueKeys

\* C25: removeFromIndex, addToIndex and unique return the receiver's list
\* followed by the entries of this call in argument order; unique adds one
\* entry holding all its paths; removeFromIndex leaves includedPaths as it was
\* and addToIndex leaves excludedPaths as it was.
C25_ListsAccumulate ==
    /\ lastCall.method \in {"removeFromIndex", "removeAllFromIndex"} =>
          LET paths == IF lastCall.method = "removeFromIndex" THEN lastCall.arg ELSE <<"/*">>
              old == indexingPolicy(Receiver.definition)
              new == indexingPolicy(Returned.definition)
          IN  /\ Returned.definition.indexingPolicy # None
              /\ new.excludedPaths # None
              /\ Len(ListOf(new.excludedPaths)) = Len(ListOf(old.excludedPaths)) + Len(paths)
              /\ \A i \in 1..Len(ListOf(old.excludedPaths)) :
                    ListOf(new.excludedPaths)[i] = ListOf(old.excludedPaths)[i]
              /\ \A i \in 1..Len(paths) :
                    ListOf(new.excludedPaths)[Len(ListOf(old.excludedPaths)) + i]
                        = [path |-> paths[i]]
              /\ new.includedPaths = old.includedPaths
    /\ lastCall.method = "addToIndex" =>
          LET old == indexingPolicy(Receiver.definition)
              new == indexingPolicy(Returned.definition)
          IN  /\ Returned.definition.indexingPolicy # None
              /\ new.includedPaths # None
              /\ ListOf(new.includedPaths)
                    = ListOf(old.includedPaths) \o <<[path |-> lastCall.arg, indexes |-> Indexes]>>
              /\ new.excludedPaths = old.excludedPaths
    /\ lastCall.method = "unique" =>
          /\ Returned.definition.uniqueKeyPolicy # None
          /\ UniqueKeys(Returned.definition)
                = UniqueKeys(Receiver.definition) \o <<[paths |-> lastCall.arg]>>

\* removeFromIndex('/b', '/a') was called on a Schema that already excluded a
\* path; the result lists the old path, then '/b', then '/a'.
C25_Witness ==
    /\ lastCall.method = "removeFromIndex"
    /\ lastCall.arg = <<"/b", "/a">>
    /\ ListOf(indexingPolicy(Receiver.definition).excludedPaths) = <<[path |-> "/a"]>>
    /\ ListOf(indexingPolicy(Returned.definition).excludedPaths)
          = <<[path |-> "/a"], [path |-> "/b"], [path |-> "/a"]>>

Range(s) == {s[i] : i \in 1..Len(s)}

\* The configuration a field() call passes, whichever argument carries it.
GivenConfig(a) ==
    IF a.typeOrConfig.kind = "AsType"
    THEN IF a.fieldConfig.kind = "config" THEN a.fieldConfig.keys ELSE <<>>
    ELSE IF a.typeOrConfig.kind = "config" THEN a.typeOrConfig.keys ELSE <<>>

Fragment(js, name) == {p[2] : p \in {q \in Range(js.properties) : q[1] = name}}

\* C27: after field(name, ...), jsonSchema of the result requires name exactly
\* when isRequired was given as true or the type was a non-optional asType,
\* requires every other field exactly when the receiver did, has one property
\* per declared field, and the property of name is the configuration without
\* its isRequired and transform keys.
C27_JsonSchema ==
    /\ \A i \in 1..Len(schemas) :
          /\ jsonSchema(schemas[i]).type = "object"
          /\ Range(jsonSchema(schemas[i]).required)
                = {f.name : f \in {g \in Range(schemas[i].schemaMap) : g.required}}
          /\ Len(jsonSchema(schemas[i]).properties) = Len(schemas[i].schemaMap)
          /\ {p[1] : p \in Range(jsonSchema(schemas[i]).properties)}
                = {f.name : f \in Range(schemas[i].schemaMap)}
    /\ lastCall.method = "field" =>
          LET a == lastCall.arg
              new == jsonSchema(Returned)
              old == jsonSchema(Receiver)
          IN  /\ a.name \in Range(new.required)
                    <=> \/ <<"isRequired", "true">> \in Range(GivenConfig(a))
                        \/ a.typeOrConfig = asType
              /\ \A n \in FieldNames \ {a.name} :
                    /\ n \in Range(new.required) <=> n \in Range(old.required)
                    /\ Fragment(new, n) = Fragment(old, n)
              /\ {p[1] : p \in Range(new.properties)}
                    = {p[1] : p \in Range(old.properties)} \cup {a.name}
              /\ \E frag \in Fragment(new, a.name) :
                    /\ Fragment(new, a.name) = {frag}
                    /\ Range(frag) = {kv \in Range(GivenConfig(a)) :
                                        kv[1] \notin {"isRequired", "transform"}}
                    /\ Len(frag) = Cardinality(Range(frag))

\* field('username', asType().optional(), { type: 'string', isRequired: true })
\* was called: username is required although its type is optional.
C27_Witness ==
    /\ lastCall.method = "field"
    /\ lastCall.arg.name = "username"
    /\ lastCall.arg.typeOrConfig = optional
    /\ lastCall.arg.fieldConfig = Config(<< <<"type", "string">>, <<"isRequired", "true">> >>)
    /\ jsonSchema(Returned).required = <<"id", "username">>
    /\ Fragment(jsonSchema(Returned), "username") = { << <<"type", "string">> >> }

\* ------------------------------------------------------------ the sql tag
\* The most values interpolated into one template.
MaxParams == 4

\* JSON values: id is what a Map compares keys by (the value itself for a
\* primitive, the reference for an array or object), json what is sent.
Values ==
    {[id |-> "'connor'", json |-> "'connor'"],
     [id |-> "42", json |-> "42"],
     [id |-> "array#1", json |-> "[1]"],
     [id |-> "array#2", json |-> "[1]"]}

RECURSIVE SeqsUpTo(_, _)
SeqsUpTo(S, n) ==
    IF n = 0 THEN {<<>>}
    ELSE SeqsUpTo(S, n - 1) \cup
         {Append(s, v) : s \in {t \in SeqsUpTo(S, n - 1) : Len(t) = n - 1}, v \in S}

\* The literal parts of a template with n interpolations: one more than n.
Parts(n) == [i \in 1..(n + 1) |-> <<"part", i - 1>>]

\* Variant of sqlLoop that names every interpolation without consulting args.
RECURSIVE sqlLoop_noLookup(_, _, _, _, _)
sqlLoop_noLookup(parts, ps, i, args, q) ==
    IF i >= Len(ps)
    THEN [query |-> q \o <<parts[Len(parts)]>>, parameters |-> args]
    ELSE sqlLoop_noLookup(parts, ps, i + 1,
                          Append(args, [value |-> ps[i + 1], name |-> <<"@arg", i>>]),
                          q \o <<parts[i + 1], <<"@arg", i>> >>)

\* The loop of sql from index i on (0-based, as in the code): args is the Map
\* in insertion order, q the text so far as a list of pieces.
RECURSIVE sqlLoop(_, _, _, _, _)
sqlLoop(parts, ps, i, args, q) ==
    IF i >= Len(ps)
    THEN [query |-> q \o <<parts[Len(parts)]>>, parameters |-> args]
    ELSE LET hit == {k \in 1..Len(args) : args[k].value.id = ps[i + 1].id}
             paramName == IF hit = {} THEN <<"@arg", i>>
                          ELSE args[CHOOSE k \in hit : TRUE].name
         IN  sqlLoop(parts, ps, i + 1,
                     IF hit = {} THEN Append(args, [value |-> ps[i + 1], name |-> paramName])
                     ELSE args,
                     q \o <<parts[i + 1], paramName>>)

sql(parts, ps) == sqlLoop(parts, ps, 0, <<>>, <<>>)

InitSql ==
    /\ Quiet
    /\ NoBuilder

\* A template with up to MaxParams interpolations is evaluated.
Sql ==
    \E ps \in SeqsUpTo(Values, MaxParams) :
        /\ query = NoQuery
        /\ params' = ps
        /\ query' = sql(Parts(Len(ps)), ps)
        /\ UNCHANGED <<store, etagSeq, modelVars, atomicVars, schemaVars, codecVars, connVars>>

NextSql == Sql

SpecSql == InitSql /\ [][NextSql]_vars

\* C29: the text is the literal parts in order with one parameter name after
\* each but the last; the name at a position is bound in the parameter list
\* to the value interpolated there; two positions carry the same name exactly
\* when their values are identical; no value and no name is listed twice and
\* every listed value was interpolated.
C29_SqlParameters ==
    query.query # <<>> =>
        /\ Len(query.query) = 2 * Len(params) + 1
        /\ \A i \in 0..Len(params) : query.query[2 * i + 1] = <<"part", i>>
        /\ \A i \in 1..Len(params) :
              \E k \in 1..Len(query.parameters) :
                  /\ query.parameters[k].name = query.query[2 * i]
                  /\ query.parameters[k].value = params[i]
        /\ \A i, j \in 1..Len(params) :
              (params[i] = params[j]) <=> (query.query[2 * i] = query.query[2 * j])
        /\ \A k, l \in 1..Len(query.parameters) :
              k # l => /\ query.parameters[k].value # query.parameters[l].value
                       /\ query.parameters[k].name # query.parameters[l].name
        /\ \A k \in 1..Len(query.parameters) :
              \E i \in 1..Len(params) : query.parameters[k].value = params[i]

\* One value was interpolated twice with another in between.
C29_Witness ==
    /\ Len(params) = 3
    /\ params[1] = params[3]
    /\ params[1] # params[2]
    /\ query.query = << <<"part", 0>>, <<"@arg", 0>>, <<"part", 1>>, <<"@arg", 1>>,
                        <<"part", 2>>, <<"@arg", 0>>, <<"part", 3>> >>
    /\ query.parameters = << [value |-> params[1], name |-> <<"@arg", 0>>],
                             [value |-> params[2], name |-> <<"@arg", 1>>] >>

\* ------------------------------------------------------------- Transform
\* maxItems of the favoriteColors field of the test schema.
MaxItems == 3

Colors == {"red", "blue", "green", "purple"}

\* The arrays the schema allows in the store, and the Sets a program can hold.
StoredValues == {[kind |-> "Array", items |-> s] : s \in SeqsUpTo(Colors, MaxItems)}
AppValues ==
    {[kind |-> "Set", items |-> s] :
        s \in {t \in SeqsUpTo(Colors, MaxItems) : Cardinality(Range(t)) = Len(t)}}

\* The items of s without the later occurrences of a repeated one: the order
\* in which new Set(s) holds them.
RECURSIVE dedupe(_)
dedupe(s) ==
    IF s = <<>> THEN <<>>
    ELSE LET front == dedupe(SubSeq(s, 1, Len(s) - 1))
         IN  IF s[Len(s)] \in Range(front) THEN front ELSE Append(front, s[Len(s)])

TypeError == [kind |-> "TypeError", items |-> <<>>]

\* stored => new Set(stored): an Object is not iterable.
deserialize(stored) ==
    IF stored.kind \in {"Array", "Set"}
    THEN [kind |-> "Set", items |-> dedupe(stored.items)]
    ELSE TypeError

\* app => Array.from(app): an Object without length gives the empty array.
serialize(app) ==
    IF app.kind \in {"Array", "Set"}
    THEN [kind |-> "Array", items |-> app.items]
    ELSE [kind |-> "Array", items |-> <<>>]

\* Only favoriteColors has a transform in the schema; id passes through.
transformFromDatabase(values) ==
    [id |-> values.id, favoriteColors |-> deserialize(values.favoriteColors)]

transformToDatabase(p) ==
    [id |-> p.id, favoriteColors |-> serialize(p.favoriteColors)]

InitTransform ==
    /\ Quiet
    /\ NoBuilder

\* A stored document is mapped to properties and back.
FromDatabaseAndBack ==
    \E x \in StoredValues :
        LET there == transformFromDatabase([id |-> "1", favoriteColors |-> x])
        IN  /\ trip' = [from |-> "store", x |-> x, there |-> there.favoriteColors,
                        back |-> transformToDatabase(there).favoriteColors]
            /\ UNCHANGED <<store, etagSeq, modelVars, atomicVars, schemaVars, queryVars,
                           doc, inst, found, connVars>>

\* Properties are mapped to a document and back.
ToDatabaseAndBack ==
    \E y \in AppValues :
        LET there == transformToDatabase([id |-> "1", favoriteColors |-> y])
        IN  /\ trip' = [from |-> "app", x |-> y, there |-> there.favoriteColors,
                        back |-> transformFromDatabase(there).favoriteColors]
            /\ UNCHANGED <<store, etagSeq, modelVars, atomicVars, schemaVars, queryVars,
                           doc, inst, found, connVars>>

NextTransform ==
    \/ FromDatabaseAndBack
    \/ ToDatabaseAndBack

SpecTransform == InitTransform /\ [][NextTransform]_vars

\* C22: serialize(deserialize(x)) = x for every array the schema allows in
\* the store, and deserialize(serialize(y)) = y for every Set.
C22_RoundTripAll ==
    trip.from \in {"store", "app"} => trip.back = trip.x

\* ------------------------------------- documents with a transformed field
Ids == {"1", "2"}

\* What JSON.stringify keeps of a value: a Set has no enumerable property and
\* is written as {}.
toJSON(v) == IF v.kind = "Set" THEN [kind |-> "Object", items |-> <<>>] ELSE v

\* The body the store receives for the props p.
body(p) == [id |-> p.id, favoriteColors |-> toJSON(p.favoriteColors)]

\* container.item(id).read(): the document, a 404 without resource, or a
\* rejection with the store's error.
read(id, err) ==
    IF err # "none" THEN [thrown |-> err, statusCode |-> err, resource |-> NoProps]
    ELSE IF doc # NoProps /\ doc.id = id
         THEN [thrown |-> "none", statusCode |-> "200", resource |-> doc]
         ELSE [thrown |-> "none", statusCode |-> "404", resource |-> NoProps]

\* The outcome of findWithDetails for a response: the code of what it throws
\* or "ok" and the props of the model it builds.
findWithDetails(response) ==
    IF response.thrown # "none" THEN [code |-> response.thrown, props |-> NoProps]
    ELSE IF response.resource = NoProps
         THEN [code |-> response.statusCode, props |-> NoProps]
         ELSE IF transformFromDatabase(response.resource).favoriteColors = TypeError
              THEN [code |-> "TypeError", props |-> NoProps]
              ELSE [code |-> "ok", props |-> transformFromDatabase(response.resource)]

\* Variant of catchNotFound that swallows whatever find throws.
catchNotFound_any(o) ==
    IF o.code # "ok" THEN [code |-> "undefined", props |-> NoProps] ELSE o

\* The try/catch of maybeFind around find.
catchNotFound(o) ==
    IF o.code = "404" THEN [code |-> "undefined", props |-> NoProps] ELSE o

InitCodec ==
    /\ Quiet
    /\ NoConnection
    /\ schemas = <<>>
    /\ lastCall = NoCall
    /\ params = <<>>
    /\ query = NoQuery
    /\ doc \in {NoProps} \cup {[id |-> "1", favoriteColors |-> x] : x \in StoredValues}
    /\ \E y \in AppValues :
          inst = [original |-> [id |-> "1", favoriteColors |-> y],
                  props |-> [id |-> "1", favoriteColors |-> y],
                  sent |-> NoProps, code |-> "none"]
    /\ found = NoOutcome
    /\ trip = NoTrip

OtherThanCodec == <<store, etagSeq, modelVars, atomicVars, schemaVars, queryVars, trip, connVars>>

\* inst.create(): the props go to the store as they are and the response
\* replaces them.
ModelCreate ==
    /\ inst.code = "none"
    /\ IF doc # NoProps /\ doc.id = inst.props.id
       THEN /\ inst' = [inst EXCEPT !.sent = body(inst.props), !.code = "409"]
            /\ UNCHANGED doc
       ELSE /\ doc' = body(inst.props)
            /\ inst' = [inst EXCEPT !.sent = body(inst.props), !.props = body(inst.props),
                                    !.code = "ok"]
    /\ UNCHANGED <<found, OtherThanCodec>>

\* inst.update() after a create: the same, as an upsert.
ModelUpdate ==
    /\ inst.code = "ok"
    /\ doc' = body(inst.props)
    /\ inst' = [inst EXCEPT !.sent = body(inst.props), !.props = body(inst.props),
                            !.code = "updated"]
    /\ UNCHANGED <<found, OtherThanCodec>>

PartitionFind ==
    \E id \in Ids, err \in {"none"} \cup StoreErrors :
        /\ found' = [by |-> "find", id |-> id, err |-> err,
                     code |-> findWithDetails(read(id, err)).code,
                     props |-> findWithDetails(read(id, err)).props]
        /\ UNCHANGED <<doc, inst, OtherThanCodec>>

PartitionMaybeFind ==
    \E id \in Ids, err \in {"none"} \cup StoreErrors :
        /\ found' = [by |-> "maybeFind", id |-> id, err |-> err,
                     code |-> catchNotFound(findWithDetails(read(id, err))).code,
                     props |-> catchNotFound(findWithDetails(read(id, err))).props]
        /\ UNCHANGED <<doc, inst, OtherThanCodec>>

\* Query.run over the partition: a model is constructed from each document
\* of the result as it is.
QueryRun ==
    /\ found' = IF doc = NoProps
                THEN [by |-> "run", id |-> "none", err |-> "none", code |-> "empty",
                      props |-> NoProps]
                ELSE [by |-> "run", id |-> doc.id, err |-> "none", code |-> "ok",
                      props |-> doc]
    /\ UNCHANGED <<doc, inst, OtherThanCodec>>

NextCodec ==
    \/ ModelCreate
    \/ ModelUpdate
    \/ PartitionFind
    \/ PartitionMaybeFind
    \/ QueryRun

SpecCodec == InitCodec /\ [][NextCodec]_vars

\* C21: create() and update() send the serialized props; after a successful
\* write the instance holds the application representation it was given; a
\* find by id after the create returns props equal to the original's.
C21_RoundTripThroughStore ==
    /\ inst.code # "none" => inst.sent.favoriteColors.kind = "Array"
    /\ inst.code \in {"ok", "409"} => inst.sent = transformToDatabase(inst.original)
    /\ inst.code \in {"ok", "updated"} => inst.props = inst.original
    /\ (inst.code = "ok" /\ found.by = "find" /\ found.id = inst.original.id
            /\ found.err = "none")
          => (found.code = "ok" /\ found.props = inst.original)

\* C28: find for an id without a document throws with code 404 and gives no
\* model; maybeFind gives undefined in exactly that case, and whatever else
\* find throws it throws too.
C28_NotFound ==
    [][found' # found =>
          LET missing == found'.err = "none" /\ ~(doc # NoProps /\ doc.id = found'.id)
          IN  /\ found'.by = "find" =>
                    /\ missing => (found'.code = "404" /\ found'.props = NoProps)
                    /\ found'.code = "404" => missing
              /\ found'.by = "maybeFind" =>
                    /\ found'.code = "undefined" <=> missing
                    /\ found'.code = "undefined" => found'.props = NoProps
                    /\ found'.err # "none" => found'.code = found'.err
                    /\ found'.code = "ok" <=>
                          findWithDetails(read(found'.id, found'.err)).code = "ok"
                    /\ found'.code # "undefined" =>
                          found'.code = findWithDetails(read(found'.id, found'.err)).code]_vars

\* maybeFind('2') returned undefined while the document '1' was stored.
C28_Witness ==
    /\ found.by = "maybeFind"
    /\ found.id = "2"
    /\ found.err = "none"
    /\ found.code = "undefined"
    /\ doc # NoProps
    /\ doc.id = "1"

\* C30: the model Query.run builds for a stored document has the props of the
\* model find returns for that document.
C30_RunDeserializes ==
    (found.by = "run" /\ found.code = "ok" /\ doc # NoProps
        /\ findWithDetails(read(doc.id, "none")).code = "ok")
      => found.props = findWithDetails(read(doc.id, "none")).props

\* --------------------------------------- createOrUpdate, the insert race
\* C31: a createOrUpdate whose insert is answered 409 while attempts remain
\* neither ends nor changes the stored document: it goes back to the read,
\* finds the document there and next writes an update of it; a call ends
\* with 409 only when its retries are used up.
C31_InsertRaceRetried ==
    [][\A c \in Callers :
          /\ (cpc[c] = "save" /\ cstat'[c].writes = cstat[c].writes + 1
                  /\ cstat'[c].last = "409" /\ ci[c] < retries(c))
                => /\ cpc'[c] = "read"
                   /\ cres'[c] = "none"
                   /\ ci'[c] = ci[c] + 1
                   /\ store' = store
                   /\ store.exists
          /\ (cpc[c] = "read" /\ cstat[c].last = "409" /\ cpc'[c] # "read")
                => /\ cpc'[c] = "fn"
                   /\ cmodel'[c] = [has |-> TRUE, val |-> store.val, etag |-> store.etag]
          /\ (cpc[c] = "fn" /\ cstat[c].last = "409" /\ cpc'[c] = "save")
                => /\ saveTarget(cmodel'[c]) = "update"
                   /\ cmodel'[c].val = cmodel[c].val + 1
                   /\ cmodel'[c].etag = cmodel[c].etag
          /\ cres'[c] = "409" => ci'[c] = retries(c)]_vars

\* A caller lost the insert race, read the winner's document and committed
\* counter 2 on top of it.
C31_Witness ==
    \E c \in Callers :
        /\ cres[c] = "ok"
        /\ ci[c] = 1
        /\ cstat[c].writes = 2
        /\ cstat[c].commits = 1
        /\ cmodel[c].val = 2
        /\ store.val = 2
        /\ \E d \in Callers \ {c} : cres[d] = "ok" /\ cmodel[d].val = 1

\* ------------------------------------------ createOrUpdate, initialValue
\* C32: the model bound for the first attempt is initialValue, without a
\* read; a retried write clears initialValue, and the model bound for every
\* later attempt is the document the store holds at a read made after the
\* failed write of the attempt before.
C32_InitialValueOnce ==
    [][\A c \in Callers :
          /\ (cpc[c] = "read" /\ cpc'[c] # "read") =>
                IF ci[c] = 0
                THEN /\ cinit[c].has
                     /\ cpc'[c] = "fn"
                     /\ cmodel'[c] = cinit[c]
                     /\ cstat'[c].reads = cstat[c].reads
                     /\ cstat[c].writes = 0
                ELSE /\ cstat'[c].reads = cstat[c].reads + 1
                     /\ cstat[c].writes = ci[c]
                     /\ cstat[c].last \in Conflict
                     /\ cpc'[c] = "fn" =>
                           cmodel'[c] = [has |-> TRUE, val |-> store.val, etag |-> store.etag]
          /\ ci'[c] > ci[c] => (cinit'[c] = NoModel /\ cpc'[c] = "read")
          /\ ci[c] >= 1 => cinit[c] = NoModel]_vars

\* On its second attempt a call holds the document another caller wrote,
\* not the initial value it was started with.
C32_Witness ==
    \E c \in Callers :
        /\ cpc[c] = "fn"
        /\ ci[c] = 1
        /\ cinit[c] = NoModel
        /\ cstat[c].reads = 1
        /\ cstat[c].writes = 1
        /\ cmodel[c] = [has |-> TRUE, val |-> 1, etag |-> 2]

\* ------------------------------------- update() of a deleted document
\* Partition.delete(id): the document is removed whatever its _etag; a
\* missing document answers 404 and nothing changes.
PartitionDelete ==
    /\ store' = StoreDelete(store, 0).store
    /\ UNCHANGED <<etagSeq, modelVars, atomicVars, schemaVars, queryVars, codecVars, connVars>>

NextReplace ==
    \/ \E e \in Entities :
          \/ create(e)
          \/ update(e)
          \/ BeforePersist(e)
          \/ Request(e)
          \/ AfterOp(e)
          \/ Return(e)
          \/ Find(e)
    \/ PartitionDelete

SpecReplace == Init /\ [][NextReplace]_vars

\* C33: the request of update() made when the store holds no document is
\* answered not-found, rejects the call and leaves the store without one.
C33_UpdateNeverCreates ==
    [][\A e \in Entities :
          (pc[e] = "request" /\ op[e] = "update" /\ pc'[e] # "request" /\ ~store.exists)
              => /\ ~store'.exists
                 /\ pc'[e] = "done"
                 /\ result'[e] = "404"]_vars

\* C34: the request of an update() by an instance without _etag carries no
\* If-Match; whatever the store holds, it is answered with success, the
\* stored document becomes the caller's under a new _etag, which the
\* instance takes, and the call goes on to its after-hooks.
C34_TokenlessUpdateWrites ==
    [][\A e \in Entities :
          (/\ Answered(e)
           /\ via[e] = "update"
           /\ ~opts[e].force
           /\ props[e].etag = 0)
          => /\ reqs'[e] = <<"upsert">>
             /\ store' = [exists |-> TRUE, val |-> props[e].val, etag |-> etagSeq + 1]
             /\ etagSeq' = etagSeq + 1
             /\ props'[e] = [val |-> props[e].val, etag |-> store'.etag]
             /\ pc'[e] = "afterOp"
             /\ result'[e] = "none"]_vars

\* An update() by an instance without _etag has resolved over the document
\* another instance had written and still holds the older _etag of.
C34_Witness ==
    \E a, b \in Entities :
        /\ pc[a] = "done"
        /\ via[a] = "update"
        /\ ~opts[a].force
        /\ result[a] = "ok"
        /\ tokAtCall[a] = 0
        /\ reqs[a] = <<"upsert">>
        /\ store = [exists |-> TRUE, val |-> a, etag |-> props[a].etag]
        /\ props[b].etag # 0
        /\ props[b].etag < store.etag

\* --------------------------- BaseModel.updateUsing / createOrUpdateUsing
\* The hooks the update callback awaits before it returns its result, for
\* the prior document m it was given: updateUsing awaits beforePersist,
\* then beforeUpdate; the static createOrUpdateUsing awaits beforePersist,
\* then `if (m) beforeCreate() else beforeUpdate()`.
usingHooks(entry, m) ==
    IF entry = "updateUsing"
    THEN <<"beforePersist", "beforeUpdate">>
    ELSE <<"beforePersist", IF m.etag # 0 THEN "beforeCreate" ELSE "beforeUpdate">>

\* The hooks awaited once the partition's createOrUpdateUsing has resolved:
\* updateUsing awaits afterPersist, then afterUpdate; the static method
\* returns the model as it is.
usingAfterHooks(entry) ==
    IF entry = "updateUsing" THEN <<"afterPersist", "afterUpdate">> ELSE <<>>

\* A call enters the partition's createOrUpdateUsing at position first.
BeginUsing(e, entry, first) ==
    /\ pc[e] = "idle"
    /\ etagSeq + InFlight < MaxEtag
    /\ pc' = [pc EXCEPT ![e] = first]
    /\ op' = [op EXCEPT ![e] = "createOrUpdate"]
    /\ via' = [via EXCEPT ![e] = entry]
    /\ tokAtCall' = [tokAtCall EXCEPT ![e] = props[e].etag]
    /\ calls' = [calls EXCEPT ![e] = <<>>]
    /\ reqs' = [reqs EXCEPT ![e] = <<>>]
    /\ result' = [result EXCEPT ![e] = "none"]
    /\ UNCHANGED <<store, etagSeq, props, opts>>
    /\ UNCHANGED <<atomicVars, schemaVars, queryVars, codecVars, connVars>>

\* instance.updateUsing(fn): `{ ...options, initialValue: this.props,
\* mustFind: true }`, so the first attempt reads nothing.
updateUsing(e) == BeginUsing(e, "updateUsing", "usingFn")

\* Model.createOrUpdateUsing(id, partitionKey, fn): `{ ...options,
\* mustFind: true }` and no initial value, so the first attempt reads.
createOrUpdateUsing(e) == BeginUsing(e, "createOrUpdateUsing", "usingRead")

\* The read of an attempt without a prior state; under mustFind a missing
\* document rejects the call.
UsingRead(e) ==
    /\ pc[e] = "usingRead"
    /\ IF find(store).code = "ok"
       THEN /\ props' = [props EXCEPT ![e] = [val |-> find(store).model.val,
                                              etag |-> find(store).model.etag]]
            /\ pc' = [pc EXCEPT ![e] = "usingFn"]
            /\ UNCHANGED result
       ELSE /\ pc' = [pc EXCEPT ![e] = "done"]
            /\ result' = [result EXCEPT ![e] = find(store).code]
            /\ UNCHANGED props
    /\ UNCHANGED <<store, etagSeq, op, via, opts, tokAtCall, calls, reqs>>
    /\ UNCHANGED <<atomicVars, schemaVars, queryVars, codecVars, connVars>>

\* The callback handed to the partition: the caller's function runs on the
\* prior state and either returns AbortUpdate, which the callback returns at
\* once, or the changed model, for which the callback awaits its hooks.
UsingFn(e) ==
    /\ pc[e] = "usingFn"
    /\ \E abort \in BOOLEAN :
          IF abort
          THEN /\ pc' = [pc EXCEPT ![e] = "done"]
               /\ result' = [result EXCEPT ![e] = "aborted"]
               /\ UNCHANGED <<props, calls>>
          ELSE /\ props' = [props EXCEPT ![e].val = e]
               /\ calls' = [calls EXCEPT ![e] = @ \o usingHooks(via[e], props[e])]
               /\ pc' = [pc EXCEPT ![e] = "usingSave"]
               /\ UNCHANGED result
    /\ UNCHANGED <<store, etagSeq, op, via, opts, tokAtCall, reqs>>
    /\ UNCHANGED <<atomicVars, schemaVars, queryVars, codecVars, connVars>>

\* The write of an attempt: a conflict within the retry budget clears the
\* prior state and starts the next attempt with a read, any other error
\* rejects the call.
UsingSave(e) ==
    /\ pc[e] = "usingSave"
    /\ LET r == IF saveTarget(props[e]) = "create"
                THEN StoreCreate(store, etagSeq, props[e].val)
                ELSE StoreUpsert(store, etagSeq, props[e].val, props[e].etag)
       IN /\ reqs' = [reqs EXCEPT ![e] =
                         Append(@, requestKind(saveTarget(props[e]), props[e].etag))]
          /\ store' = r.store
          /\ etagSeq' = r.seq
          /\ IF r.code = "ok"
             THEN /\ props' = [props EXCEPT ![e] = [val |-> r.store.val, etag |-> r.store.etag]]
                  /\ pc' = [pc EXCEPT ![e] = "usingAfter"]
                  /\ UNCHANGED result
             ELSE IF r.code \in Conflict /\ Len(reqs[e]) < MaxRetries
             THEN /\ pc' = [pc EXCEPT ![e] = "usingRead"]
                  /\ UNCHANGED <<props, result>>
             ELSE /\ pc' = [pc EXCEPT ![e] = "done"]
                  /\ result' = [result EXCEPT ![e] = r.code]
                  /\ UNCHANGED props
    /\ UNCHANGED <<op, via, opts, tokAtCall, calls>>
    /\ UNCHANGED <<atomicVars, schemaVars, queryVars, codecVars, connVars>>

\* The partition has resolved with the persisted model: updateUsing takes
\* its props and awaits the after-hooks, the static method returns it.
UsingAfter(e) ==
    /\ pc[e] = "usingAfter"
    /\ calls' = [calls EXCEPT ![e] = @ \o usingAfterHooks(via[e])]
    /\ pc' = [pc EXCEPT ![e] = "done"]
    /\ result' = [result EXCEPT ![e] = "ok"]
    /\ UNCHANGED <<store, etagSeq, props, op, via, opts, tokAtCall, reqs>>
    /\ UNCHANGED <<atomicVars, schemaVars, queryVars, codecVars, connVars>>

NextUsing ==
    \E e \in Entities :
        \/ create(e)
        \/ update(e)
        \/ BeforePersist(e)
        \/ Request(e)
        \/ AfterOp(e)
        \/ Return(e)
        \/ updateUsing(e)
        \/ createOrUpdateUsing(e)
        \/ UsingRead(e)
        \/ UsingFn(e)
        \/ UsingSave(e)
        \/ UsingAfter(e)

SpecUsing == Init /\ [][NextUsing]_vars

BeforeOpHooks == {"beforeCreate", "beforeUpdate"}

AfterOpHooks == {"afterCreate", "afterUpdate"}

\* C35: in create, update, updateUsing and the static createOrUpdateUsing
\* every beforePersist comes after a before<Op> hook that no store request
\* separates from it, no store request is sent before beforePersist, and a
\* call that resolved with a persisted model awaited afterPersist and then an
\* after<Op> hook after its last store request.
C35_HookOrderEveryPath ==
    \A e \in Entities :
        /\ \A i \in DOMAIN calls[e] :
              calls[e][i] = "beforePersist"
                  => (i > 1 /\ calls[e][i - 1] \in BeforeOpHooks)
        /\ (reqs[e] # <<>>)
              => (\E i \in DOMAIN calls[e] : calls[e][i] = "beforePersist")
        /\ (pc[e] = "done" /\ result[e] = "ok")
              => (/\ Len(calls[e]) >= 2
                  /\ calls[e][Len(calls[e]) - 1] = "afterPersist"
                  /\ calls[e][Len(calls[e])] \in AfterOpHooks)

\* C36: the read of the static createOrUpdateUsing that finds no document
\* under the id hands the undefined prior state to the caller's function;
\* the call is not rejected with the not-found error.
C36_MissingIdCreates ==
    [][\A e \in Entities :
          (/\ pc[e] = "usingRead"
           /\ via[e] = "createOrUpdateUsing"
           /\ ~store.exists
           /\ pc'[e] # "usingRead")
          => /\ pc'[e] = "usingFn"
             /\ result'[e] = "none"]_vars

\* --------------------------------------------- BaseModel.partitionKey()
\* path.slice(1).split('/') for the paths in use.
pathParts(path) ==
    CASE path = "/id" -> <<"id">>
      [] path = "/a" -> <<"a">>
      [] path = "/b" -> <<"b">>

\* lookupCosmosPath: `object = object?.[part]` for each part of the path; a
\* key that is absent gives undefined.
lookupCosmosPath(object, path) == object[pathParts(path)[1]]

\* typeof of a definition key: undefined when absent, otherwise the object
\* the builder stored.
typeOf(v) == IF v = None THEN "undefined" ELSE "object"

\* Props of a model: each key absent or holding a string.
KeyProps == [id : {None, Some("1")}, a : {None, Some("x")}, b : {None, Some("y")}]

\* model.partitionKey() of a model with props p and Schema S: '' unless the
\* definition's partitionKey is a string, else the value at that path, an
\* Error when it is undefined.
modelPartitionKey(S, p) ==
    LET pkPath == S.definition.partitionKey
    IN IF typeOf(pkPath) # "string"
       THEN [thrown |-> FALSE, value |-> ""]
       ELSE LET value == lookupCosmosPath(p, pkPath[1])
            IN IF value = None
               THEN [thrown |-> TRUE, value |-> ""]
               ELSE [thrown |-> FALSE, value |-> value[1]]

\* The container is created without a partition key, or with '/id'.
InitKey ==
    /\ Quiet
    /\ NoConnection
    /\ schemas \in {<<createSchema("users")>>,
                    <<partitionKey(<<createSchema("users")>>, 1, "/id", None)[2]>>}
    /\ lastCall = NoCall
    /\ params = <<>>
    /\ query = NoQuery
    /\ NoCodec

\* new Model(p).partitionKey() for a model class of Schema number this.
ModelPartitionKey ==
    \E this \in 1..Len(schemas), p \in KeyProps :
        /\ UNCHANGED schemas
        /\ Called("model.partitionKey", this,
                  [props |-> p, returned |-> modelPartitionKey(schemas[this], p)])

NextKey ==
    \/ PartitionKey
    \/ ModelPartitionKey

SpecKey == InitKey /\ [][NextKey]_vars

\* C37: partitionKey() of a model whose Schema has a partition key returns
\* the value its props hold at the key's path and throws when the props hold
\* none.
C37_KeyAtPath ==
    (lastCall.method = "model.partitionKey"
        /\ schemas[lastCall.on].definition.partitionKey # None)
    => LET path == schemas[lastCall.on].definition.partitionKey[1].paths[1]
           value == lookupCosmosPath(lastCall.arg.props, path)
       IN IF value = None
          THEN lastCall.arg.returned.thrown
          ELSE lastCall.arg.returned = [thrown |-> FALSE, value |-> value[1]]

\* ------------------------------------------- the default container handle
InitContainer ==
    /\ Quiet
    /\ NoBuilder

\* connectModels(connection): `BaseModel.cosmosDb = connection`.
connectModels(d) ==
    /\ cosmosDb' = d
    /\ UNCHANGED <<cosmosContainer, opened, returned>>
    /\ UNCHANGED <<store, etagSeq, modelVars, atomicVars, schemaVars, queryVars, codecVars>>

\* Variant of assertContainer that asks the connected Database again when
\* the handle it holds came from another one.
assertContainer_reconnect(k, t) ==
    /\ IF cosmosContainer[k] = NoHandle \/ (cosmosDb # 0 /\ cosmosContainer[k].db # cosmosDb)
       THEN IF cosmosDb = 0
            THEN /\ returned' = [class |-> k, of |-> t, code |-> "error", handle |-> NoHandle]
                 /\ UNCHANGED <<cosmosContainer, opened>>
            ELSE LET h == [db |-> cosmosDb, n |-> opened[k] + 1]
                 IN /\ cosmosContainer' = [cosmosContainer EXCEPT ![k] = h]
                    /\ opened' = [opened EXCEPT ![k] = @ + 1]
                    /\ returned' = [class |-> k, of |-> t, code |-> "ok", handle |-> h]
       ELSE /\ returned' = [class |-> k, of |-> t, code |-> "ok", handle |-> cosmosContainer[k]]
            /\ UNCHANGED <<cosmosContainer, opened>>
    /\ UNCHANGED cosmosDb
    /\ UNCHANGED <<store, etagSeq, modelVars, atomicVars, schemaVars, queryVars, codecVars>>

\* assertContainer(t), the default of the container parameter of every
\* operation, for t the model class k or an instance of it: the class's
\* cosmosContainer when it is set; otherwise Database.container(schema.id)
\* of the connected Database is stored there and returned, and without a
\* connection an Error is thrown.
assertContainer(k, t) ==
    /\ IF cosmosContainer[k] = NoHandle
       THEN IF cosmosDb = 0
            THEN /\ returned' = [class |-> k, of |-> t, code |-> "error", handle |-> NoHandle]
                 /\ UNCHANGED <<cosmosContainer, opened>>
            ELSE LET h == [db |-> cosmosDb, n |-> opened[k] + 1]
                 IN /\ cosmosContainer' = [cosmosContainer EXCEPT ![k] = h]
                    /\ opened' = [opened EXCEPT ![k] = @ + 1]
                    /\ returned' = [class |-> k, of |-> t, code |-> "ok", handle |-> h]
       ELSE /\ returned' = [class |-> k, of |-> t, code |-> "ok", handle |-> cosmosContainer[k]]
            /\ UNCHANGED <<cosmosContainer, opened>>
    /\ UNCHANGED cosmosDb
    /\ UNCHANGED <<store, etagSeq, modelVars, atomicVars, schemaVars, queryVars, codecVars>>

NextContainer ==
    \/ \E d \in Databases : connectModels(d)
    \/ \E k \in Classes, t \in {"class", "instance"} : assertContainer(k, t)

SpecContainer == InitContainer /\ [][NextContainer]_vars

\* C38: Database.container() is called at most once for a model class, when
\* the class has no handle yet, on the Database connected at that moment; a
\* handle a class has is never replaced; and every assertContainer that
\* returns gives the handle of the class, the one it had before the call
\* when it had one.
C38_ContainerOnce ==
    [][\A k \in Classes :
          /\ opened'[k] <= 1
          /\ (cosmosContainer[k] # NoHandle) => (cosmosContainer'[k] = cosmosContainer[k])
          /\ (opened'[k] # opened[k])
                => (cosmosContainer[k] = NoHandle /\ cosmosContainer'[k].db = cosmosDb)
          /\ (returned'.class = k /\ returned'.code = "ok")
                => /\ returned'.handle = cosmosContainer'[k]
                   /\ returned'.handle # NoHandle
                   /\ (cosmosContainer[k] # NoHandle)
                         => (returned'.handle = cosmosContainer[k])]_vars

\* After connectModels was called with a second Database and another class
\* took its container from it, an instance of the first class was given the
\* handle its class took from the first Database.
C38_Witness ==
    \E j, k \in Classes :
        /\ cosmosDb = 2
        /\ cosmosContainer[j] = [db |-> 2, n |-> 1]
        /\ cosmosContainer[k] = [db |-> 1, n |-> 1]
        /\ returned = [class |-> k, of |-> "instance", code |-> "ok",
                       handle |-> [db |-> 1, n |-> 1]]

\* --------------------------- a store error answering create() / update()
\* Variant of RequestFails in which the method goes on to afterPersist.
RequestFails_afterPersist(e) ==
    /\ pc[e] = "request"
    /\ \E code \in StoreErrors :
          /\ reqs' = [reqs EXCEPT ![e] =
                         Append(@, requestKind(op[e], updateCondition(props[e], opts[e])))]
          /\ result' = [result EXCEPT ![e] = code]
    /\ calls' = [calls EXCEPT ![e] = Append(@, "afterPersist")]
    /\ pc' = [pc EXCEPT ![e] = "done"]
    /\ UNCHANGED <<store, etagSeq, props, op, via, opts, tokAtCall>>
    /\ UNCHANGED <<atomicVars, schemaVars, queryVars, codecVars, connVars>>

\* The store request of create() / update() is rejected with an error that
\* is no conflict: `await container.items.create/upsert(...)` throws out of
\* the method, nothing is written and no statement after it runs.
RequestFails(e) ==
    /\ pc[e] = "request"
    /\ \E code \in StoreErrors :
          /\ reqs' = [reqs EXCEPT ![e] =
                         Append(@, requestKind(op[e], updateCondition(props[e], opts[e])))]
          /\ result' = [result EXCEPT ![e] = code]
    /\ pc' = [pc EXCEPT ![e] = "done"]
    /\ UNCHANGED <<store, etagSeq, props, calls, op, via, opts, tokAtCall>>
    /\ UNCHANGED <<atomicVars, schemaVars, queryVars, codecVars, connVars>>

NextReject ==
    \E e \in Entities :
        \/ create(e)
        \/ update(e)
        \/ BeforePersist(e)
        \/ Request(e)
        \/ RequestFails(e)
        \/ AfterOp(e)
        \/ Return(e)
        \/ Find(e)

SpecReject == Init /\ [][NextReject]_vars

Rejections == Conflict \cup StoreErrors

\* C39: the step in which the store's rejection (409, 412 or another store
\* error) ends a create() or update() leaves the instance's props, with the
\* _etag it had when the method was called, the stored document and the
\* hooks run so far as they were; those hooks are before<Op> and
\* beforePersist and no other.
C39_RejectedWriteLeavesEntity ==
    [][\A e \in Entities :
          (Answered(e) /\ result'[e] \in Rejections)
          => /\ pc'[e] = "done"
             /\ props'[e] = props[e]
             /\ props'[e].etag = tokAtCall[e]
             /\ store' = store
             /\ calls'[e] = calls[e]
             /\ calls'[e] = <<beforeOpHook(op[e]), "beforePersist">>]_vars

\* An update() holding the stored _etag was rejected with a store error and
\* a create() with 409; both instances hold the props they had, and only
\* the two before-hooks ran.
C39_Witness ==
    \E a, b \in Entities :
        /\ pc[a] = "done" /\ op[a] = "update" /\ result[a] \in StoreErrors
        /\ props[a] = [val |-> a, etag |-> store.etag]
        /\ calls[a] = <<"beforeUpdate", "beforePersist">>
        /\ pc[b] = "done" /\ op[b] = "create" /\ result[b] = "409"
        /\ props[b] = [val |-> b, etag |-> 0]
        /\ calls[b] = <<"beforeCreate", "beforePersist">>

\* --------------------------------------- completion of the retry loops
\* Every caller has invoked createOrUpdate, or every caller atomic.update.
\* The createOrUpdate calls pass their retries (the default is one more
\* finite value), and mustFind only together with retries 0.
InitTerminate ==
    \/ /\ InitAtomic
       /\ \A c \in Callers :
             /\ cfg[c].fn = "inc" => cfg[c].retries # Unset
             /\ cfg[c].mustFind => (cfg[c].fn = "inc" /\ cfg[c].retries = 0)
    \/ InitUpdate

\* The next step of caller c's call: atomic.update is the call that was
\* handed an entity.
Step(c) ==
    \/ Read(c)
    \/ ~cent[c].has /\ Fn(c)
    \/ ~cent[c].has /\ Save(c)
    \/ cent[c].has /\ UpdFn(c)
    \/ cent[c].has /\ UpdSave(c)

NextTerminate == \E c \in Callers : Step(c)

\* Each awaited store request and transition function completes: while some
\* call can take its next step, a step is taken.
SpecTerminate == InitTerminate /\ [][NextTerminate]_vars /\ WF_vars(NextTerminate)

\* C40: every createOrUpdate and atomic.update call reaches its end: it has
\* returned the persisted entity or undefined, or raised an error.
C40_EventuallyCompletes ==
    <>(\A c \in Callers :
          cpc[c] = "done" /\ cres[c] \in {"ok", "undefined", "404"} \cup Conflict)

\* All calls have ended: one gave up on a conflict after using its whole
\* retry budget, while another had its write committed on a retry.
C40_Witness ==
    /\ AllDone
    /\ \E a, b \in Callers :
          /\ cres[a] \in Conflict /\ ci[a] = retries(a) /\ cstat[a].writes = retries(a) + 1
          /\ cres[b] = "ok" /\ ci[b] >= 1

====
